---- MODULE Spec2Model ----
(***************************************************************************)
(* Booking allocation and lifecycle engine of the coaching bot:            *)
(*   - the ticket admission guard (BookingButtonView.booking_button,       *)
(*     Tickets.create_ticket),                                             *)
(*   - the availability resolver (GoogleCalendarManager.get_available_slots)*)
(*   - the booking wizard (Tickets.booking_type_selected ... slot_selected),*)
(*   - the periodic jobs (Reminders.check_reminders, check_pack_expiry,    *)
(*     FeedbackCog.check_completed_sessions).                              *)
(* Instants are whole minutes since 00:00 of day 0, wall clock of          *)
(* config.TIMEZONE.  Python's None is modelled by None (0): row ids and    *)
(* event ids start at 1.                                                   *)
(***************************************************************************)
EXTENDS Integers, Sequences, FiniteSets, TLC

VARIABLES
    channels,        \* text channels of the ticket category: [id, readers, via]
    nextChannel,     \* id the next created channel gets
    lock,            \* Tickets._global_ticket_lock: None (free) or the holding request
    creating,        \* Tickets._creating_tickets
    req,             \* ticket-creation coroutines: request id -> [pc, user, target, chan]
    active_tickets,  \* Tickets.active_tickets: channel id -> session dict
    views,           \* channel id -> the live wizard view [kind, slots]
    controls,        \* StudentBookingControlsView messages: {[ticket, booking, user]}
    finishing,       \* slot_selected coroutines suspended after their commit
    clients,         \* table clients (sequence, row id = index)
    bookings,        \* table bookings (sequence, row id = index)
    feedbacks,       \* table feedbacks: booking ids that have a Feedback row
    calendar,        \* events of the Google calendar: {[id, start, end]}
    nextEventId,     \* id the next inserted calendar event gets
    slotsResult,     \* last call of get_available_slots: [day, duration, events, slots]
    env,             \* environment read by config.py at import
    now,             \* datetime.now(config.TIMEZONE)
    alive,           \* job -> its tasks.loop is still running
    nextDue,         \* job -> instant of its next iteration
    ready,           \* Bot.wait_until_ready() returns: the READY event was received
    notices,         \* outbound notices: booking id -> kind -> number sent
    lastEvent        \* what the last step did: [op, ticket, booking, slot, result, calls]

vars == <<channels, nextChannel, lock, creating, req, active_tickets, views, controls,
          finishing, clients, bookings, feedbacks, calendar, nextEventId, slotsResult,
          env, now, alive, nextDue, ready, notices, lastEvent>>

guardVars  == <<channels, nextChannel, lock, creating, req>>
wizardVars == <<active_tickets, views, controls, finishing>>
dbVars     == <<clients, bookings, feedbacks>>
calVars    == <<calendar, nextEventId>>
jobVars    == <<alive, nextDue, ready>>

----------------------------------------------------------------------------
(* Bounds of the model *)

MaxChannels  == 3      \* channels ever created in one run
MaxReqs      == 2      \* ticket-creation coroutines in flight at once
MaxBookings  == 9      \* rows of table bookings
MaxDayAhead  == 1      \* the date selector offers today .. today + MaxDayAhead
MaxNow       == 660    \* the clock stops here
MaxPhase     == 1      \* the process starts at minute 0 .. MaxPhase
MaxBusy      == 2      \* foreign events in the calendar
AssumedExpiryDays == 1 \* value PACK_EXPIRY_DAYS would have were it configured
MaxEvents    == 2      \* events the bot creates in the calendar
MaxInFlight  == 1      \* slot_selected coroutines between their writes and their end
MaxSelections == 2     \* the same, where two callbacks of one view interleave
MaxClickTime == 15     \* the users of the jobs model act in the first minutes of the run

----------------------------------------------------------------------------
(* Program constants *)

None == 0

MinutesPerHour == 60
MinutesPerDay  == 1440
BusinessOpenHour  == 9
BusinessCloseHour == 20
SlotStepMinutes   == 30
DiscordSelectLimit == 25
DefaultCoachingDuration == 60
ReminderInterval   == 15
CompletionInterval == 30
CompletionLookback == 60
PackExpiryInterval == 720
UtcOffset == 60

BOOKING_TYPE_FREE == "gratuit"
BOOKING_TYPE_PAID == "payant"
STATUS_CONFIRMED  == "confirmed"
STATUS_COMPLETED  == "completed"
STATUS_CANCELLED  == "cancelled"
STATUS_NO_SHOW    == "no_show"

\* Names the module config defines (src/config.py).
ConfigNames ==
    {"DISCORD_TOKEN", "GUILD_ID", "COACH_ROLE_ID", "STUDENT_ROLE_ID", "TICKET_CATEGORY_ID",
     "ANNOUNCEMENT_CHANNEL_ID", "FEEDBACK_CHANNEL_ID", "LOG_CHANNEL_ID",
     "GOOGLE_CALENDAR_ID", "GOOGLE_CREDENTIALS_PATH", "BOOKING_SLOT_DURATION", "TIMEZONE",
     "FREE_COACHING_DURATION", "PAID_COACHING_DURATION", "REMINDER_24H_ENABLED",
     "REMINDER_1H_ENABLED", "DATABASE_URL", "BOT_PREFIX", "BOT_COLOR", "SUCCESS_COLOR",
     "ERROR_COLOR", "WARNING_COLOR", "TICKET_NAME_FORMAT", "TICKET_AUTO_CLOSE_MINUTES",
     "BOOKING_TYPE_FREE", "BOOKING_TYPE_PAID", "STATUS_CONFIRMED", "STATUS_COMPLETED",
     "STATUS_CANCELLED", "STATUS_NO_SHOW"}

\* Columns of the mapped class Booking (src/database/models.py).
BookingColumns ==
    {"id", "client_id", "google_event_id", "booking_type", "scheduled_at",
     "duration_minutes", "status", "created_at", "ticket_channel_id", "notes"}

\* Quantities offered by SessionQuantityView.
Quantities == {1, 2, 3, 4, 5, 8}

Users   == {"u1", "u2", "coach"}
Coaches == {"coach"}

is_coachNobody(u) == FALSE

is_coach(u) == u \in Coaches

----------------------------------------------------------------------------
(* Instants *)

DayOf(t)  == t \div MinutesPerDay
HourOf(t) == (t % MinutesPerDay) \div MinutesPerHour

\* datetime.replace(hour=h, minute=0, second=0, microsecond=0)
ReplaceHour(t, h) == DayOf(t) * MinutesPerDay + h * MinutesPerHour

\* selected_date.replace(hour=0, ...) of day d
StartOfDay(d) == d * MinutesPerDay

\* selected_date.replace(hour=23, minute=59, second=59, microsecond=999999): for a
\* whole-minute instant t, t < 23:59:59.999999 iff t < 24:00, which is what is kept.
EndOfDay(d) == (d + 1) * MinutesPerDay

----------------------------------------------------------------------------
(* Availability resolver: GoogleCalendarManager.get_available_slots *)

\* events().list(timeMin, timeMax, singleEvents=True): the events that intersect the
\* window.
ListEvents(cal, timeMin, timeMax) ==
    {ev \in cal : ev.end > timeMin /\ ev.start < timeMax}

OverlapsStartOnly(current_time, slot_end, ev) ==
    current_time < ev.end /\ current_time >= ev.start

OverlapsClosed(current_time, slot_end, ev) ==
    current_time <= ev.end /\ slot_end >= ev.start

\* if (current_time < event_end and slot_end > event_start)
Overlaps(current_time, slot_end, ev) ==
    current_time < ev.end /\ slot_end > ev.start

\* the inner for-loop over events with its break
IsAvailable(current_time, duration_minutes, events) ==
    \A ev \in events : ~Overlaps(current_time, current_time + duration_minutes, ev)

RECURSIVE SlotWalkWithinHours(_, _, _, _)
\* a walk that keeps a start only when its session ends by the close of business
SlotWalkWithinHours(current_time, end_date, duration_minutes, events) ==
    IF ~(current_time < end_date)
    THEN <<>>
    ELSE IF HourOf(current_time) < BusinessOpenHour
            \/ HourOf(current_time) >= BusinessCloseHour
    THEN SlotWalkWithinHours(ReplaceHour(current_time + MinutesPerDay, BusinessOpenHour),
                             end_date, duration_minutes, events)
    ELSE (IF /\ IsAvailable(current_time, duration_minutes, events)
             /\ current_time + duration_minutes
                    <= ReplaceHour(current_time, BusinessCloseHour)
          THEN <<current_time>> ELSE <<>>)
         \o SlotWalkWithinHours(current_time + SlotStepMinutes, end_date,
                                duration_minutes, events)

RECURSIVE SlotWalk(_, _, _, _)
\* the while-loop: current_time walks from 09:00 in 30-minute steps
SlotWalk(current_time, end_date, duration_minutes, events) ==
    IF ~(current_time < end_date)
    THEN <<>>
    ELSE IF HourOf(current_time) < BusinessOpenHour
            \/ HourOf(current_time) >= BusinessCloseHour
    THEN SlotWalk(ReplaceHour(current_time + MinutesPerDay, BusinessOpenHour),
                  end_date, duration_minutes, events)
    ELSE (IF IsAvailable(current_time, duration_minutes, events)
          THEN <<current_time>> ELSE <<>>)
         \o SlotWalk(current_time + SlotStepMinutes, end_date, duration_minutes, events)

\* The list call raises an exception that is not an HttpError (the transport's: the
\* server is not found, the connection times out); `except HttpError` lets it pass.
ResolverRaises(provider) == provider = "unreachable"

\* What is returned when the call returns: self.service is None ("no_service"), or
\* the list call raises HttpError, gives the empty list.
get_available_slots(provider, start_date, end_date, duration_minutes, cal) ==
    IF provider # "ok"
    THEN <<>>
    ELSE SlotWalk(ReplaceHour(start_date, BusinessOpenHour), end_date, duration_minutes,
                  ListEvents(cal, start_date, end_date))

\* What date_selected asks of the resolver for the day d.
ResolveDay(provider, d, duration_minutes) ==
    [day |-> d, duration |-> duration_minutes, provider |-> provider,
     raised |-> ResolverRaises(provider),
     events |-> IF provider = "ok"
                THEN ListEvents(calendar, StartOfDay(d), EndOfDay(d)) ELSE {},
     slots |-> get_available_slots(provider, StartOfDay(d), EndOfDay(d),
                                   duration_minutes, calendar)]

Providers == {"ok", "no_service", "HttpError", "unreachable"}

SeqToSet(s) == {s[i] : i \in DOMAIN s}

\* self.slots[:25]
FirstN(s, n) == IF Len(s) <= n THEN s ELSE SubSeq(s, 1, n)

----------------------------------------------------------------------------
(* What a step reports: the handler or job that ran, what it was about, its     *)
(* outcome, and the calendar write calls it made.                               *)

Ev(op, ticket, booking, slot, result, calls) ==
    [op |-> op, ticket |-> ticket, booking |-> booking, slot |-> slot,
     result |-> result, calls |-> calls]

NoView == [kind |-> "none", slots |-> <<>>]
View(kind, slots) == [kind |-> kind, slots |-> slots]

IdleReq == [pc |-> "idle", user |-> "u1", kind |-> "button", chan |-> None]

----------------------------------------------------------------------------
(* Ticket admission: BookingButtonView.booking_button, Tickets.create_ticket *)

OwnsChannelNever(u, c) == FALSE

\* channel.name.startswith("ticket-") and user in channel.overwrites and
\* channel.overwrites[user].read_messages is True; every channel of the model is a
\* text channel named by TICKET_NAME_FORMAT.
OwnsChannel(u, c) == u \in c.readers

ButtonFindsNone(u) == FALSE

\* the scan of category.channels in booking_button
ButtonFindsTicket(u) == \E c \in channels : OwnsChannel(u, c)

\* the scan of category.channels in create_ticket, for a non-coach only
CreateTicketFindsTicket(u) == ~is_coach(u) /\ \E c \in channels : OwnsChannel(u, c)

\* the channel the scan of booking_button stops at and mentions in its reply
OwnedTicket(u) == (CHOOSE c \in channels : OwnsChannel(u, c)).id

InFlight == {p \in DOMAIN req : req[p].pc # "idle"}

\* A press of the booking button by u: the handler runs up to its first await,
\* interaction.response.defer.
Press(p, u) ==
    /\ req[p].pc = "idle"
    /\ \A q \in 1..(p - 1) : req[q].pc # "idle"
    /\ nextChannel + Cardinality(InFlight) <= MaxChannels
    /\ req' = [req EXCEPT ![p] = [pc |-> "deferred", user |-> u,
                                  kind |-> IF is_coach(u) THEN "coach_button" ELSE "button",
                                  chan |-> None]]
    /\ lastEvent' = Ev("press", None, None, None, u, <<>>)
    /\ UNCHANGED <<channels, nextChannel, lock, creating, views>>

\* /ticket create user:u, issued by who: only a coach gets past the role check, and
\* the handler runs up to its first await, interaction.response.defer.
TicketCreate(p, who, u) ==
    /\ req[p].pc = "idle"
    /\ \A q \in 1..(p - 1) : req[q].pc # "idle"
    /\ nextChannel + Cardinality(InFlight) <= MaxChannels
    /\ IF is_coach(who)
       THEN /\ req' = [req EXCEPT ![p] = [pc |-> "deferred", user |-> u,
                                         kind |-> "command", chan |-> None]]
            /\ lastEvent' = Ev("ticket_create", None, None, None, u, <<>>)
       ELSE /\ lastEvent' = Ev("ticket_create", None, None, None, "Refused", <<>>)
            /\ UNCHANGED req
    /\ UNCHANGED <<channels, nextChannel, lock, creating, views>>

\* After the defer.  A coach, and /ticket create, call create_ticket at once.  Anyone
\* else enters `async with cog._global_ticket_lock` when the lock is free, and runs to the next
\* await: the already-creating reply, the duplicate reply, or create_text_channel
\* inside create_ticket (whose own scan runs in the same step).
Enter(p) ==
    /\ req[p].pc = "deferred"
    /\ LET u == req[p].user IN
       IF req[p].kind # "button"
       THEN /\ req' = [req EXCEPT ![p].pc =
                          IF CreateTicketFindsTicket(u) THEN "result" ELSE "create"]
            /\ UNCHANGED <<lock, creating>>
       ELSE /\ lock = None
            /\ lock' = p
            /\ IF u \in creating
               THEN /\ req' = [req EXCEPT ![p].pc = "reply_busy"]
                    /\ UNCHANGED creating
               ELSE IF ButtonFindsTicket(u)
               THEN /\ req' = [req EXCEPT ![p].pc = "reply_dup", ![p].chan = OwnedTicket(u)]
                    /\ UNCHANGED creating
               ELSE /\ creating' = creating \cup {u}
                    /\ req' = [req EXCEPT ![p].pc =
                                  IF CreateTicketFindsTicket(u) THEN "result" ELSE "create"]
    /\ lastEvent' = Ev("enter", None, None, None, req[p].user, <<>>)
    /\ UNCHANGED <<channels, nextChannel, views>>

\* await category.create_text_channel(...): the channel exists on return; Forbidden
\* or any other exception makes create_ticket return None.
CreateChannel(p, ok) ==
    /\ req[p].pc = "create"
    /\ IF ok
       THEN /\ channels' = channels \cup {[id |-> nextChannel, readers |-> {req[p].user},
                                           via |-> req[p].kind]}
            /\ nextChannel' = nextChannel + 1
            /\ req' = [req EXCEPT ![p].pc = "welcome", ![p].chan = nextChannel]
       ELSE /\ req' = [req EXCEPT ![p].pc = "result"]
            /\ UNCHANGED <<channels, nextChannel>>
    /\ lastEvent' = Ev("create_text_channel", IF ok THEN nextChannel ELSE None, None, None,
                       req[p].user, <<>>)
    /\ UNCHANGED <<lock, creating, views>>

ChannelExists(id) == \E c \in channels : c.id = id

\* await ticket_channel.send(welcome, view=BookingTypeView): an exception makes
\* create_ticket return None although the channel exists.
SendWelcome(p, ok) ==
    /\ req[p].pc = "welcome"
    /\ ok => ChannelExists(req[p].chan)
    /\ IF ok
       THEN /\ views' = [views EXCEPT ![req[p].chan] = View("type", <<>>)]
            /\ req' = [req EXCEPT ![p].pc = "controls"]
       ELSE /\ req' = [req EXCEPT ![p].pc = "result", ![p].chan = None]
            /\ UNCHANGED views
    /\ lastEvent' = Ev("send_welcome", req[p].chan, None, None, req[p].user, <<>>)
    /\ UNCHANGED <<channels, nextChannel, lock, creating>>

\* await ticket_channel.send(coach_embed, view=CoachTicketControlsView)
SendControls(p, ok) ==
    /\ req[p].pc = "controls"
    /\ ok => ChannelExists(req[p].chan)
    /\ req' = [req EXCEPT ![p].pc = "result",
                          ![p].chan = IF ok THEN req[p].chan ELSE None]
    /\ lastEvent' = Ev("send_controls", req[p].chan, None, None, req[p].user, <<>>)
    /\ UNCHANGED <<channels, nextChannel, lock, creating, views>>

\* the exits without the finally clause
ReplyKeepsCreating(p) ==
    /\ req[p].pc \in {"result", "reply_busy", "reply_dup"}
    /\ lock' = IF lock = p THEN None ELSE lock
    /\ req' = [req EXCEPT ![p] = IdleReq]
    /\ lastEvent' = Ev("booking_button", req[p].chan, None, None, "ok", <<>>)
    /\ UNCHANGED <<channels, nextChannel, views, creating>>

\* The last await of the handler, interaction.followup.send, and its exits: the
\* finally clause discards the user from _creating_tickets, leaving `async with`
\* releases the lock.  The two early returns are outside the try.
Reply(p) ==
    /\ req[p].pc \in {"result", "reply_busy", "reply_dup"}
    /\ creating' = IF req[p].kind = "button" /\ req[p].pc = "result"
                   THEN creating \ {req[p].user} ELSE creating
    /\ lock' = IF lock = p THEN None ELSE lock
    /\ req' = [req EXCEPT ![p] = IdleReq]
    /\ lastEvent' = Ev(IF req[p].kind = "command" THEN "ticket" ELSE "booking_button",
                       req[p].chan, None, None,
                       CASE req[p].pc = "reply_busy" -> "AlreadyInProgress"
                         [] req[p].pc = "reply_dup" -> "DuplicateTicket"
                         [] req[p].chan # None -> "TicketCreated"
                         [] OTHER -> "CreationFailed",
                       <<>>)
    /\ UNCHANGED <<channels, nextChannel, views>>

\* channel.delete(...) at the end of _close_ticket / close_ticket_button
CloseTicket(id) ==
    /\ ChannelExists(id)
    /\ channels' = {c \in channels : c.id # id}
    /\ views' = [views EXCEPT ![id] = NoView]
    /\ lastEvent' = Ev("close_ticket", id, None, None, "ok", <<>>)
    /\ UNCHANGED <<nextChannel, lock, creating, req>>

----------------------------------------------------------------------------
(* Store and calendar primitives *)

\* an assignment that is lost
DictSetLost(d, k, v) == d

\* dict.get(k, default), d[k] = v, del d[k]
DictGet(d, k, default) == IF k \in DOMAIN d THEN d[k] ELSE default
DictSet(d, k, v) == [x \in DOMAIN d \cup {k} |-> IF x = k THEN v ELSE d[x]]
DictDel(d, k) == [x \in DOMAIN d \ {k} |-> d[x]]

\* config.FREE_COACHING_DURATION if booking_type == config.BOOKING_TYPE_FREE
\* else config.PAID_COACHING_DURATION
DurationFor(booking_type) ==
    IF booking_type = BOOKING_TYPE_FREE
    THEN env.FREE_COACHING_DURATION ELSE env.PAID_COACHING_DURATION

\* session.query(Client).filter_by(discord_id=...).first(): the row id, or None
ClientOf(discord_id) ==
    IF \E i \in DOMAIN clients : clients[i].discord_id = discord_id
    THEN CHOOSE i \in DOMAIN clients : clients[i].discord_id = discord_id
    ELSE None

\* Client(discord_id=...): total_sessions defaults to 0
NewClient(discord_id) ==
    [id |-> Len(clients) + 1, discord_id |-> discord_id, total_sessions |-> 0]

CountedPerSession(total_sessions, quantity) == total_sessions + quantity

\* client.total_sessions += 1, once per slot selection whatever the quantity
CountedOnce(total_sessions, quantity) == total_sessions + 1

\* notes=None
NoNotes == <<>>

\* a row of table bookings
BookingRow(id, client_id, event_id, booking_type, slot, duration, status, created_at, ticket, notes) ==
    [id |-> id, client_id |-> client_id, google_event_id |-> event_id,
     booking_type |-> booking_type, scheduled_at |-> slot,
     duration_minutes |-> duration, status |-> status,
     created_at |-> created_at, ticket_channel_id |-> ticket, notes |-> notes]

\* Booking(...) as slot_selected builds it; created_at defaults to datetime.utcnow,
\* which is UtcOffset behind the wall clock of config.TIMEZONE.
NewBooking(id, client_id, event_id, booking_type, slot, status, ticket, notes) ==
    BookingRow(id, client_id, event_id, booking_type, slot, DurationFor(booking_type),
               status, now - UtcOffset, ticket, notes)

\* range(1, quantity + 1) instead of range(1, quantity)
PlaceholdersOneMore(quantity, firstId, client_id, booking_type, slot, ticket) ==
    [i \in 1..quantity |->
        NewBooking(firstId + i, client_id, None, booking_type, slot,
                   "pending_schedule", ticket, <<i + 1, quantity>>)]

\* placeholders that carry the event id of the first session
PlaceholdersSharingEvent(quantity, firstId, client_id, booking_type, slot, ticket) ==
    [i \in 1..(quantity - 1) |->
        NewBooking(firstId + i, client_id, nextEventId, booking_type, slot,
                   "pending_schedule", ticket, <<i + 1, quantity>>)]

\* for i in range(1, quantity): the rows of the sessions still to be planned, all
\* at the selected slot and without a calendar event
Placeholders(quantity, firstId, client_id, booking_type, slot, ticket) ==
    [i \in 1..(quantity - 1) |->
        NewBooking(firstId + i, client_id, None, booking_type, slot,
                   "pending_schedule", ticket, <<i + 1, quantity>>)]

\* events().insert(...): the event as the calendar stores it
CalendarEvent(id, start_time, duration_minutes) ==
    [id |-> id, start |-> start_time, end |-> start_time + duration_minutes]

\* events().delete(eventId=...)
WithoutEvent(cal, event_id) == {ev \in cal : ev.id # event_id}

NoNotices == [r24 |-> 0, r1 |-> 0, feedback |-> 0]

\* the channel's member: the user the ticket was created for
TicketUser(t) == CHOOSE u \in Users : \E c \in channels : c.id = t /\ u \in c.readers

----------------------------------------------------------------------------
(* The booking wizard: Tickets.booking_type_selected, quantity_selected,        *)
(* date_selected, slot_selected.  A handler is one step from its first line to  *)
(* its next await; slot_selected has a second step for what follows its writes. *)


\* Starts a user of the model picks in a CalendarSlotsView.
ChoosableStarts == {540, 570, 1980}

\* A slot_selected coroutine has flushed a new Client row and awaits its error reply
\* with the transaction open: the database is locked for other writers.
WriteLocked == \E f \in finishing : f.stage = "create_failed" /\ f.newClient

\* BookingTypeView.free_button / paid_button -> booking_type_selected
BookingTypeSelected(t, booking_type) ==
    /\ ChannelExists(t)
    /\ views[t].kind = "type"
    /\ LET ticket_data == [user |-> TicketUser(t), booking_type |-> booking_type] IN
       IF booking_type = BOOKING_TYPE_PAID
       THEN /\ active_tickets' = DictSet(active_tickets, t, ticket_data)
            /\ views' = [views EXCEPT ![t] = View("quantity", <<>>)]
       ELSE /\ active_tickets' = DictSet(active_tickets, t, DictSet(ticket_data, "quantity", 1))
            /\ views' = [views EXCEPT ![t] = View("date", <<>>)]
    /\ lastEvent' = Ev("booking_type_selected", t, None, None, booking_type, <<>>)
    /\ UNCHANGED <<controls, finishing, dbVars, notices, calVars, slotsResult>>

\* quantity_selected showing the date selector without storing the quantity
QuantitySelectedUnstored(t, quantity) ==
    /\ ChannelExists(t)
    /\ views[t].kind = "quantity"
    /\ views' = [views EXCEPT ![t] = View("date", <<>>)]
    /\ lastEvent' = Ev("quantity_selected", t, None, None, ToString(quantity), <<>>)
    /\ UNCHANGED <<active_tickets, controls, finishing, dbVars, notices, calVars, slotsResult>>

\* SessionQuantityView -> quantity_selected, for the value of the option chosen; the
\* quantity is stored only when the ticket has a session, the date selector is shown
\* in either case.
QuantitySelected(t, quantity) ==
    /\ ChannelExists(t)
    /\ views[t].kind = "quantity"
    /\ active_tickets' =
           IF t \in DOMAIN active_tickets
           THEN DictSet(active_tickets, t, DictSet(active_tickets[t], "quantity", quantity))
           ELSE active_tickets
    /\ views' = [views EXCEPT ![t] = View("date", <<>>)]
    /\ lastEvent' = Ev("quantity_selected", t, None, None, ToString(quantity), <<>>)
    /\ UNCHANGED <<controls, finishing, dbVars, notices, calVars, slotsResult>>

\* What a date_selected step reports besides: the day asked for and what the
\* provider did; neither when the handler returned before asking.
EvDate(t, d, provider, result) ==
    [op |-> "date_selected", ticket |-> t, booking |-> None, slot |-> None,
     result |-> result, calls |-> <<>>, day |-> d, provider |-> provider]

\* date_selected answering a day without slots with the slot selector of an empty
\* list
DateSelectedNoRetry(t, d, provider) ==
    /\ ChannelExists(t)
    /\ views[t].kind = "date"
    /\ IF t \notin DOMAIN active_tickets
       THEN /\ views' = [views EXCEPT ![t] = NoView]
            /\ lastEvent' = EvDate(t, None, "none", "SessionExpired")
       ELSE IF ResolverRaises(provider)
       THEN /\ views' = views
            /\ lastEvent' = EvDate(t, d, provider, "Raised")
       ELSE LET duration == DurationFor(active_tickets[t].booking_type)
                res == ResolveDay(provider, d, duration)
            IN  /\ views' = [views EXCEPT ![t] =
                                 View("slots", FirstN(res.slots, DiscordSelectLimit))]
                /\ lastEvent' = EvDate(t, d, provider,
                                       IF res.slots = <<>> THEN "NoSlots" ELSE "ok")
    /\ UNCHANGED <<active_tickets, controls, finishing, dbVars, notices, calVars, slotsResult>>

\* DateSelectorView -> date_selected, for the day d.  An exception of the resolver
\* leaves the handler after defer(): the message keeps its date selector.
DateSelected(t, d, provider) ==
    /\ ChannelExists(t)
    /\ views[t].kind = "date"
    /\ IF t \notin DOMAIN active_tickets
       THEN /\ views' = [views EXCEPT ![t] = NoView]
            /\ lastEvent' = EvDate(t, None, "none", "SessionExpired")
       ELSE IF ResolverRaises(provider)
       THEN /\ views' = views
            /\ lastEvent' = EvDate(t, d, provider, "Raised")
       ELSE LET duration == DurationFor(active_tickets[t].booking_type)
                res == ResolveDay(provider, d, duration)
            IN  IF res.slots = <<>>
                THEN /\ views' = [views EXCEPT ![t] = View("date", <<>>)]
                     /\ lastEvent' = EvDate(t, d, provider, "NoSlots")
                ELSE /\ views' = [views EXCEPT ![t] =
                                     View("slots", FirstN(res.slots, DiscordSelectLimit))]
                     /\ lastEvent' = EvDate(t, d, provider, "ok")
    /\ UNCHANGED <<active_tickets, controls, finishing, dbVars, notices, calVars, slotsResult>>

Finishing(t, stage, booking, user, newClient) ==
    [ticket |-> t, stage |-> stage, booking |-> booking, user |-> user,
     newClient |-> newClient]

\* slot_selected taking a missing session for a fresh one
SlotExpiredOpensSession(t, s) ==
    /\ views' = [views EXCEPT ![t] = NoView]
    /\ active_tickets' = DictSet(active_tickets, t, [user |-> TicketUser(t)])
    /\ lastEvent' = Ev("slot_selected", t, None, s, "SessionExpired", <<>>)
    /\ UNCHANGED <<controls, finishing, dbVars, notices, calVars>>

\* slot_selected, no session for the ticket: "Session expirée", the view is removed
SlotExpired(t, s) ==
    /\ views' = [views EXCEPT ![t] = NoView]
    /\ lastEvent' = Ev("slot_selected", t, None, s, "SessionExpired", <<>>)
    /\ UNCHANGED <<active_tickets, controls, finishing, dbVars, notices, calVars>>

\* a reschedule that gives up when the old event could not be deleted
SlotRescheduleAbortsOnDelete(t, s, delete_ok, create_ok) ==
    LET ticket_data == active_tickets[t]
        b == ticket_data.reschedule_booking_id
        duration == DurationFor(ticket_data.booking_type)
    IN
    IF b \notin DOMAIN bookings
    THEN /\ lastEvent' = Ev("slot_selected", t, b, s, "BookingNotFound", <<>>)
         /\ UNCHANGED <<active_tickets, views, controls, finishing, dbVars, notices,
                        calVars>>
    ELSE
    LET old_event == bookings[b].google_event_id
        deleted == IF old_event # None /\ delete_ok
                   THEN WithoutEvent(calendar, old_event) ELSE calendar
        calls == (IF old_event # None THEN <<"delete">> ELSE <<>>) \o <<"create">>
    IN
    IF old_event # None /\ ~delete_ok
    THEN /\ lastEvent' = Ev("slot_selected", t, b, s, "DeleteFailed", <<"delete">>)
         /\ UNCHANGED <<active_tickets, views, controls, finishing, dbVars, notices,
                        calVars>>
    ELSE
    IF create_ok
    THEN /\ ~WriteLocked
         /\ nextEventId <= MaxEvents
         /\ calendar' = deleted \cup {CalendarEvent(nextEventId, s, duration)}
         /\ nextEventId' = nextEventId + 1
         /\ bookings' = [bookings EXCEPT ![b].scheduled_at = s,
                                         ![b].google_event_id = nextEventId]
         /\ notices' = [notices EXCEPT ![b] = [@ EXCEPT !.r24 = 0, !.r1 = 0]]
         /\ finishing' = finishing \cup
                {Finishing(t, "rescheduled", b, ticket_data.user, FALSE)}
         /\ lastEvent' = Ev("slot_selected", t, b, s, "Rescheduled", calls)
         /\ UNCHANGED <<active_tickets, views, controls, clients, feedbacks>>
    ELSE /\ calendar' = deleted
         /\ lastEvent' = Ev("slot_selected", t, b, s, "CalendarWriteFailed", calls)
         /\ UNCHANGED <<active_tickets, views, controls, finishing, dbVars, notices,
                        nextEventId>>

\* slot_selected, the session carries reschedule_booking_id: the old event is deleted
\* (a failure is only printed), a new one is created, and only on success the row
\* gets the new instant and event id and is committed.
SlotReschedule(t, s, delete_ok, create_ok) ==
    LET ticket_data == active_tickets[t]
        b == ticket_data.reschedule_booking_id
        duration == DurationFor(ticket_data.booking_type)
    IN
    IF b \notin DOMAIN bookings
    THEN /\ lastEvent' = Ev("slot_selected", t, b, s, "BookingNotFound", <<>>)
         /\ UNCHANGED <<active_tickets, views, controls, finishing, dbVars, notices,
                        calVars>>
    ELSE
    LET old_event == bookings[b].google_event_id
        deleted == IF old_event # None /\ delete_ok
                   THEN WithoutEvent(calendar, old_event) ELSE calendar
        calls == (IF old_event # None THEN <<"delete">> ELSE <<>>) \o <<"create">>
    IN
    IF create_ok
    THEN /\ ~WriteLocked
         /\ nextEventId <= MaxEvents
         /\ calendar' = deleted \cup {CalendarEvent(nextEventId, s, duration)}
         /\ nextEventId' = nextEventId + 1
         /\ bookings' = [bookings EXCEPT ![b].scheduled_at = s,
                                         ![b].google_event_id = nextEventId]
         /\ notices' = [notices EXCEPT ![b] = [@ EXCEPT !.r24 = 0, !.r1 = 0]]
         /\ finishing' = finishing \cup
                {Finishing(t, "rescheduled", b, ticket_data.user, FALSE)}
         /\ lastEvent' = Ev("slot_selected", t, b, s, "Rescheduled", calls)
         /\ UNCHANGED <<active_tickets, views, controls, clients, feedbacks>>
    ELSE /\ calendar' = deleted
         /\ lastEvent' = Ev("slot_selected", t, b, s, "CalendarWriteFailed", calls)
         /\ UNCHANGED <<active_tickets, views, controls, finishing, dbVars, notices,
                        nextEventId>>

\* slot_selected, a new booking: the Client row is fetched or added and flushed, the
\* event is created, and on success the confirmed row and the placeholders are added
\* and the transaction is committed on leaving `with get_session()`.
SlotNewBooking(t, s, create_ok) ==
    LET ticket_data == active_tickets[t]
        user == ticket_data.user
        booking_type == ticket_data.booking_type
        quantity == DictGet(ticket_data, "quantity", 1)
        existing == ClientOf(user)
        withClient == IF existing = None THEN Append(clients, NewClient(user)) ELSE clients
        client_id == IF existing = None THEN Len(clients) + 1 ELSE existing
        firstId == Len(bookings) + 1
    IN
    /\ ~WriteLocked
    /\ IF create_ok
       THEN /\ nextEventId <= MaxEvents
            /\ Len(bookings) + quantity <= MaxBookings
            /\ calendar' = calendar \cup
                   {CalendarEvent(nextEventId, s, DurationFor(booking_type))}
            /\ nextEventId' = nextEventId + 1
            /\ clients' = [withClient EXCEPT
                               ![client_id].total_sessions = CountedOnce(@, quantity)]
            /\ bookings' = bookings
                   \o <<NewBooking(firstId, client_id, nextEventId, booking_type, s,
                                   STATUS_CONFIRMED, t,
                                   IF quantity > 1 THEN <<1, quantity>> ELSE NoNotes)>>
                   \o Placeholders(quantity, firstId, client_id, booking_type, s, t)
            /\ notices' = notices \o [i \in 1..(Len(bookings') - Len(bookings)) |-> NoNotices]
            /\ finishing' = finishing \cup {Finishing(t, "confirmed", firstId, user, FALSE)}
            /\ lastEvent' = Ev("slot_selected", t, firstId, s, "BookingCreated", <<"create">>)
            /\ UNCHANGED <<active_tickets, views, controls, feedbacks>>
       ELSE /\ finishing' = finishing \cup
                   {Finishing(t, "create_failed", None, user, existing = None)}
            /\ lastEvent' = Ev("slot_selected", t, None, s, "CalendarWriteFailed", <<"create">>)
            /\ UNCHANGED <<active_tickets, views, controls, dbVars, notices, calVars>>

\* CalendarSlotsView -> slot_selected for the start s, up to the first await after
\* the calendar calls.
slot_selected(t, s, delete_ok, create_ok) ==
    /\ ChannelExists(t)
    /\ views[t].kind = "slots"
    /\ s \in SeqToSet(views[t].slots)
    /\ IF t \notin DOMAIN active_tickets
       THEN SlotExpired(t, s)
       ELSE IF DictGet(active_tickets[t], "reschedule_booking_id", None) # None
       THEN SlotReschedule(t, s, delete_ok, create_ok)
       ELSE SlotNewBooking(t, s, create_ok)
    /\ UNCHANGED slotsResult

\* slot_selected while fewer than MaxInFlight of its coroutines are suspended
SlotSelected(t, s, delete_ok, create_ok) ==
    /\ Cardinality(finishing) < MaxInFlight
    /\ slot_selected(t, s, delete_ok, create_ok)

FinishOutcomes == {"ok", "edit_failed", "send_failed"}

ControlsSecondBooking(first_booking) == first_booking + 1

\* StudentBookingControlsView(booking_id=booking_ids[0]): the controls address the
\* confirmed booking, never a placeholder of the pack
ControlsBooking(first_booking) == first_booking

\* What slot_selected does after its writes.  After a booking: edit_message(view=None),
\* channel.send(StudentBookingControlsView), notify_coaches, del active_tickets[...];
\* an exception of one of the sends ends the handler there.  After a failed event
\* creation: edit_message(view=None) inside `with get_session()`, whose exit commits
\* the flushed Client row, or rolls it back when the edit raised.  After a reschedule:
\* followup.send, then del active_tickets[...].
SlotFinish(f, outcome) ==
    /\ f \in finishing
    /\ finishing' = finishing \ {f}
    /\ outcome = "ok" => ChannelExists(f.ticket)
    /\ CASE f.stage = "confirmed" ->
              /\ views' = IF outcome = "edit_failed" THEN views
                          ELSE [views EXCEPT ![f.ticket] = NoView]
              /\ controls' = IF outcome = "ok"
                             THEN controls \cup {[ticket |-> f.ticket,
                                                  booking |-> ControlsBooking(f.booking),
                                                  user |-> f.user]}
                             ELSE controls
              /\ active_tickets' = IF outcome = "ok" /\ f.ticket \in DOMAIN active_tickets
                                   THEN DictDel(active_tickets, f.ticket)
                                   ELSE active_tickets
              /\ UNCHANGED clients
         [] f.stage = "create_failed" ->
              /\ outcome # "send_failed"
              /\ views' = IF outcome = "ok" THEN [views EXCEPT ![f.ticket] = NoView]
                          ELSE views
              /\ clients' = IF outcome = "ok" /\ f.newClient
                            THEN Append(clients, NewClient(f.user)) ELSE clients
              /\ UNCHANGED <<active_tickets, controls>>
         [] f.stage = "rescheduled" ->
              /\ outcome # "edit_failed"
              /\ active_tickets' = IF outcome = "ok" /\ f.ticket \in DOMAIN active_tickets
                                   THEN DictDel(active_tickets, f.ticket)
                                   ELSE active_tickets
              /\ UNCHANGED <<views, controls, clients>>
    /\ lastEvent' = Ev("slot_selected_end", f.ticket, f.booking, None,
                       IF outcome # "ok" THEN outcome
                       ELSE IF f.stage = "create_failed" THEN "CalendarWriteFailed"
                       ELSE "ok", <<>>)
    /\ UNCHANGED <<bookings, feedbacks, notices, calVars, slotsResult>>

\* The view a ticket shows has seen no interaction for its timeout of 300 seconds:
\* the library stops dispatching to it and calls on_timeout, which only
\* BookingTypeView defines, and there it disables the buttons of the view object.
\* Nothing removes the entry of the ticket from active_tickets.
ViewTimeout(t) ==
    /\ ChannelExists(t)
    /\ views[t].kind \in {"type", "quantity", "date", "slots"}
    /\ \A f \in finishing : f.ticket # t
    /\ views' = [views EXCEPT ![t] = NoView]
    /\ lastEvent' = Ev("on_timeout", t, None, None, views[t].kind, <<>>)
    /\ UNCHANGED <<active_tickets, controls, finishing, dbVars, notices, calVars,
                   slotsResult>>

\* StudentBookingControlsView.reschedule_booking_button -> handle_reschedule_booking,
\* pressed by who: the session of the ticket is replaced by one carrying the booking.
HandleRescheduleBooking(t, b, who) ==
    /\ ChannelExists(t)
    /\ \E ctl \in controls :
           ctl.ticket = t /\ ctl.booking = b /\ (who = ctl.user \/ is_coach(who))
    /\ b \in DOMAIN bookings
    /\ IF bookings[b].status \in {STATUS_CANCELLED, STATUS_COMPLETED}
       THEN /\ lastEvent' = Ev("handle_reschedule_booking", t, b, None, "Refused", <<>>)
            /\ UNCHANGED <<active_tickets, views>>
       ELSE /\ active_tickets' = DictSet(active_tickets, t,
                   [user |-> who, booking_type |-> bookings[b].booking_type,
                    quantity |-> 1, reschedule_booking_id |-> b,
                    old_date |-> bookings[b].scheduled_at])
            /\ views' = [views EXCEPT ![t] = View("date", <<>>)]
            /\ lastEvent' = Ev("handle_reschedule_booking", t, b, None, "ok", <<>>)
    /\ UNCHANGED <<controls, finishing, dbVars, notices, calVars, slotsResult>>

\* a cancellation that deletes the calendar event first and gives up when that fails
HandleCancelDeleteFirst(t, b, who, delete_ok) ==
    /\ ChannelExists(t)
    /\ \E ctl \in controls :
           ctl.ticket = t /\ ctl.booking = b /\ (who = ctl.user \/ is_coach(who))
    /\ IF b \notin DOMAIN bookings
       THEN /\ lastEvent' = Ev("handle_cancel_booking", t, b, None, "NotFound", <<>>)
            /\ UNCHANGED <<bookings, calendar>>
       ELSE IF bookings[b].status = STATUS_CANCELLED
       THEN /\ lastEvent' = Ev("handle_cancel_booking", t, b, None, "AlreadyCancelled", <<>>)
            /\ UNCHANGED <<bookings, calendar>>
       ELSE IF bookings[b].google_event_id # None /\ ~delete_ok
       THEN /\ lastEvent' = Ev("handle_cancel_booking", t, b, None, "DeleteFailed",
                               <<"delete">>)
            /\ UNCHANGED <<bookings, calendar>>
       ELSE /\ ~WriteLocked
            /\ bookings' = [bookings EXCEPT ![b].status = STATUS_CANCELLED]
            /\ calendar' = IF bookings[b].google_event_id # None
                           THEN WithoutEvent(calendar, bookings[b].google_event_id)
                           ELSE calendar
            /\ lastEvent' = Ev("handle_cancel_booking", t, b, None, "Cancelled",
                               IF bookings[b].google_event_id # None
                               THEN <<"delete">> ELSE <<>>)
    /\ UNCHANGED <<active_tickets, views, controls, finishing, clients, feedbacks,
                   notices, nextEventId, slotsResult>>

\* StudentBookingControlsView.cancel_booking_button -> handle_cancel_booking: the row
\* is cancelled and committed, then its calendar event is deleted (a failure is only
\* printed).
HandleCancelBooking(t, b, who, delete_ok) ==
    /\ ChannelExists(t)
    /\ \E ctl \in controls :
           ctl.ticket = t /\ ctl.booking = b /\ (who = ctl.user \/ is_coach(who))
    /\ IF b \notin DOMAIN bookings
       THEN /\ lastEvent' = Ev("handle_cancel_booking", t, b, None, "NotFound", <<>>)
            /\ UNCHANGED <<bookings, calendar>>
       ELSE IF bookings[b].status = STATUS_CANCELLED
       THEN /\ lastEvent' = Ev("handle_cancel_booking", t, b, None, "AlreadyCancelled", <<>>)
            /\ UNCHANGED <<bookings, calendar>>
       ELSE /\ ~WriteLocked
            /\ bookings' = [bookings EXCEPT ![b].status = STATUS_CANCELLED]
            /\ calendar' = IF bookings[b].google_event_id # None /\ delete_ok
                           THEN WithoutEvent(calendar, bookings[b].google_event_id)
                           ELSE calendar
            /\ lastEvent' = Ev("handle_cancel_booking", t, b, None, "Cancelled",
                               IF bookings[b].google_event_id # None
                               THEN <<"delete">> ELSE <<>>)
    /\ UNCHANGED <<active_tickets, views, controls, finishing, clients, feedbacks,
                   notices, nextEventId, slotsResult>>

\* the status /booking writes for an action; "view" writes nothing
AdminStatus(action) ==
    CASE action = "cancel" -> STATUS_CANCELLED
      [] action = "complete" -> STATUS_COMPLETED
      [] action = "noshow" -> STATUS_NO_SHOW

AdminActions == {"cancel", "complete", "noshow", "view"}

\* /booking action booking_id, issued by who: a coach's cancel, complete or noshow
\* overwrites the status of the row, whatever it was, and commits; the calendar
\* event stays.
AdminBooking(action, b, who) ==
    /\ IF ~is_coach(who)
       THEN /\ lastEvent' = Ev("booking", None, b, None, "Refused", <<>>)
            /\ UNCHANGED bookings
       ELSE IF b \notin DOMAIN bookings
       THEN /\ lastEvent' = Ev("booking", None, b, None, "BookingNotFound", <<>>)
            /\ UNCHANGED bookings
       ELSE IF action = "view"
       THEN /\ lastEvent' = Ev("booking", None, b, None, "view", <<>>)
            /\ UNCHANGED bookings
       ELSE /\ ~WriteLocked
            /\ bookings' = [bookings EXCEPT ![b].status = AdminStatus(action)]
            /\ lastEvent' = Ev("booking", None, b, None, action, <<>>)
    /\ UNCHANGED <<active_tickets, views, controls, finishing, clients, feedbacks,
                   notices, calVars, slotsResult>>

\* /add-sessions by who, then AddSessionsModal.on_submit: the first call of
\* calendar_manager.create_event, a method GoogleCalendarManager does not have, raises
\* AttributeError inside `with get_session()`, which rolls back the flushed Client.
AddSessions(who) ==
    /\ lastEvent' = Ev("add_sessions", None, None, None,
                       IF is_coach(who) THEN "AttributeError" ELSE "Refused", <<>>)
    /\ UNCHANGED <<active_tickets, views, controls, finishing, dbVars, notices, calVars,
                   slotsResult>>

----------------------------------------------------------------------------
(* The periodic jobs: Reminders.check_reminders, FeedbackCog.check_completed_    *)
(* sessions, Reminders.check_pack_expiry.  A tasks.loop runs its first iteration *)
(* when the bot is ready and then once per interval; an exception that leaves    *)
(* the iteration ends the loop for the rest of the process.                      *)

Jobs == {"check_reminders", "check_completed_sessions", "check_pack_expiry"}

JobInterval(j) ==
    CASE j = "check_reminders" -> ReminderInterval
      [] j = "check_completed_sessions" -> CompletionInterval
      [] j = "check_pack_expiry" -> PackExpiryInterval

\* datetime.now(config.TIMEZONE) is timezone-aware; a DateTime column read back from
\* the database is naive.
Aware(t) == [t |-> t, aware |-> TRUE]
Naive(t) == [t |-> t, aware |-> FALSE]

\* a <= b on datetimes raises TypeError when exactly one of them is naive
CompareRaises(a, b) == a.aware # b.aware

\* booking.<name> on a loaded row: the value, or AttributeError when the mapped class
\* has no such attribute
FlagReadUnset(b, name) == [raised |-> FALSE, value |-> FALSE]

FlagRead(b, name) ==
    IF name \in DOMAIN bookings[b]
    THEN [raised |-> FALSE, value |-> bookings[b][name]]
    ELSE [raised |-> TRUE, value |-> FALSE]

\* timedelta(hours=23, minutes=45) <= time_until <= timedelta(hours=24, minutes=15)
In24hWindow(time_until) == 1425 <= time_until /\ time_until <= 1455

\* timedelta(minutes=45) <= time_until <= timedelta(hours=1, minutes=15)
In1hWindow(time_until) == 45 <= time_until /\ time_until <= 75

\* query of check_reminders: confirmed bookings still to come
UpcomingConfirmed ==
    {b \in DOMAIN bookings :
        bookings[b].status = STATUS_CONFIRMED /\ bookings[b].scheduled_at > now}

\* the iteration over the query raises at the first row whose flag read raises
ReminderRaisesAt(b) ==
    \/ env.REMINDER_24H_ENABLED /\ FlagRead(b, "reminder_24h_sent").raised
    \/ env.REMINDER_1H_ENABLED /\ FlagRead(b, "reminder_1h_sent").raised

Sends24h(b) ==
    /\ env.REMINDER_24H_ENABLED
    /\ ~FlagRead(b, "reminder_24h_sent").raised
    /\ ~FlagRead(b, "reminder_24h_sent").value
    /\ In24hWindow(bookings[b].scheduled_at - now)

Sends1h(b) ==
    /\ env.REMINDER_1H_ENABLED
    /\ ~FlagRead(b, "reminder_1h_sent").raised
    /\ ~FlagRead(b, "reminder_1h_sent").value
    /\ In1hWindow(bookings[b].scheduled_at - now)

\* booking.<name> = True; session.commit(): persisted only for a mapped column
WithFlag(row, name, set) ==
    IF set /\ name \in DOMAIN row THEN [row EXCEPT ![name] = TRUE] ELSE row

\* a loop with no before_loop
JobReadyUnawaited(j) == TRUE

\* before_loop of job j: await self.bot.wait_until_ready()
JobReady(j) == ready

JobEnds(j, raised) ==
    /\ ready' = ready
    /\ alive' = [alive EXCEPT ![j] = ~raised]
    /\ nextDue' = [nextDue EXCEPT ![j] = IF raised THEN None ELSE now + JobInterval(j)]

\* an iteration that reads no flag and notifies every row still to come, whatever
\* its status
TickRemindersAnyStatus ==
    LET j == "check_reminders"
        rows == {b \in DOMAIN bookings : bookings[b].scheduled_at > now}
    IN
    /\ JobReady(j) /\ alive[j] /\ nextDue[j] = now
    /\ notices' = [b \in DOMAIN notices |->
                      [notices[b] EXCEPT
                          !.r24 = @ + (IF b \in rows
                                          /\ In24hWindow(bookings[b].scheduled_at - now)
                                       THEN 1 ELSE 0),
                          !.r1 = @ + (IF b \in rows
                                         /\ In1hWindow(bookings[b].scheduled_at - now)
                                      THEN 1 ELSE 0)]]
    /\ JobEnds(j, FALSE)
    /\ lastEvent' = Ev(j, None, None, None, "ok", <<>>)
    /\ UNCHANGED <<bookings, clients, feedbacks>>

\* One iteration of check_reminders.
TickReminders ==
    LET j == "check_reminders"
        raising == {b \in UpcomingConfirmed : ReminderRaisesAt(b)}
        done == {b \in UpcomingConfirmed : \A r \in raising : b < r}
        \* the 24h notice of the raising row itself goes out when only its 1h read raises
        half == {b \in raising : (\A r \in raising : b <= r) /\ Sends24h(b)}
    IN
    /\ JobReady(j) /\ alive[j] /\ nextDue[j] = now
    /\ notices' = [b \in DOMAIN notices |->
                      [notices[b] EXCEPT
                          !.r24 = @ + (IF b \in done \cup half /\ Sends24h(b) THEN 1 ELSE 0),
                          !.r1 = @ + (IF b \in done /\ Sends1h(b) THEN 1 ELSE 0)]]
    /\ bookings' = [b \in DOMAIN bookings |->
                      WithFlag(WithFlag(bookings[b], "reminder_24h_sent",
                                        b \in done \cup half /\ Sends24h(b)),
                               "reminder_1h_sent", b \in done /\ Sends1h(b))]
    /\ JobEnds(j, raising # {})
    /\ lastEvent' = Ev(j, None, None, None,
                       IF raising # {} THEN "AttributeError" ELSE "ok", <<>>)
    /\ UNCHANGED <<clients, feedbacks>>

\* query of check_completed_sessions: confirmed, started within the last hour, and no
\* Feedback row
RecentlyStarted ==
    {b \in DOMAIN bookings :
        /\ bookings[b].status = STATUS_CONFIRMED
        /\ bookings[b].scheduled_at < now
        /\ bookings[b].scheduled_at > now - CompletionLookback
        /\ b \notin feedbacks}

\* session_end = booking.scheduled_at + timedelta(minutes=booking.duration_minutes)
SessionEnd(b) == Naive(bookings[b].scheduled_at + bookings[b].duration_minutes)

\* One iteration of check_completed_sessions: `session_end <= now` is evaluated for
\* every row of the query.
TickCompletion ==
    LET j == "check_completed_sessions"
        raising == {b \in RecentlyStarted : CompareRaises(SessionEnd(b), Aware(now))}
        done == {b \in RecentlyStarted :
                    (\A r \in raising : b < r) /\ SessionEnd(b).t <= now}
    IN
    /\ JobReady(j) /\ alive[j] /\ nextDue[j] = now
    /\ notices' = [b \in DOMAIN notices |->
                      [notices[b] EXCEPT !.feedback = @ + (IF b \in done THEN 1 ELSE 0)]]
    /\ bookings' = [b \in DOMAIN bookings |->
                      IF b \in done THEN [bookings[b] EXCEPT !.status = STATUS_COMPLETED]
                      ELSE bookings[b]]
    /\ JobEnds(j, raising # {})
    /\ lastEvent' = Ev(j, None, None, None,
                       IF raising # {} THEN "TypeError" ELSE "ok", <<>>)
    /\ UNCHANGED <<clients, feedbacks>>

\* One iteration of check_pack_expiry: config.PACK_EXPIRY_DAYS and
\* config.STATUS_PENDING_SCHEDULE are read before anything is written.
TickExpiry ==
    LET j == "check_pack_expiry"
        raised == ~({"PACK_EXPIRY_DAYS", "STATUS_PENDING_SCHEDULE"} \subseteq ConfigNames)
        expired == {b \in DOMAIN bookings :
                       /\ bookings[b].status = "pending_schedule"
                       /\ bookings[b].created_at <= now - AssumedExpiryDays * MinutesPerDay}
    IN
    /\ JobReady(j) /\ alive[j] /\ nextDue[j] = now
    /\ bookings' = [b \in DOMAIN bookings |->
                      IF ~raised /\ b \in expired
                      THEN [bookings[b] EXCEPT !.status = STATUS_CANCELLED]
                      ELSE bookings[b]]
    /\ JobEnds(j, raised)
    /\ lastEvent' = Ev(j, None, None, None,
                       IF raised THEN "AttributeError" ELSE "ok", <<>>)
    /\ UNCHANGED <<clients, feedbacks, notices>>

\* /clear-bookings with its defaults (every user, every status), issued by who: a
\* coach's command deletes the calendar event of every row that has one, then the
\* rows, their Feedback rows with them, and commits.
ClearBookings(who, delete_ok) ==
    /\ IF ~is_coach(who)
       THEN /\ lastEvent' = Ev("clear_bookings", None, None, None, "Refused", <<>>)
            /\ UNCHANGED <<bookings, feedbacks, notices, calendar>>
       ELSE IF bookings = <<>>
       THEN /\ lastEvent' = Ev("clear_bookings", None, None, None, "NoneFound", <<>>)
            /\ UNCHANGED <<bookings, feedbacks, notices, calendar>>
       ELSE /\ ~WriteLocked
            /\ calendar' = IF delete_ok
                           THEN {ev \in calendar :
                                    \A b \in DOMAIN bookings :
                                        bookings[b].google_event_id # ev.id}
                           ELSE calendar
            /\ bookings' = <<>>
            /\ feedbacks' = {}
            /\ notices' = <<>>
            /\ lastEvent' = Ev("clear_bookings", None, None, None, "Cleared", <<>>)
    /\ UNCHANGED <<active_tickets, views, controls, finishing, clients, nextEventId,
                   slotsResult>>

\* Time passes, once every iteration that is due has run.
Advance ==
    /\ \A j \in Jobs : alive[j] /\ JobReady(j) => nextDue[j] > now
    /\ now + ReminderInterval <= MaxNow
    /\ now' = now + ReminderInterval
    /\ lastEvent' = Ev("advance", None, None, None, "ok", <<>>)
    /\ UNCHANGED <<alive, nextDue, ready>>

\* The process is stopped and started again: what it held in memory is gone, views
\* other than the booking button are dead, open transactions are rolled back, and
\* the three loops start anew; the database and the calendar stay.
Restart ==
    /\ lock' = None
    /\ creating' = {}
    /\ req' = [p \in 1..MaxReqs |-> IdleReq]
    /\ active_tickets' = <<>>
    /\ views' = [c \in 1..MaxChannels |-> NoView]
    /\ controls' = {}
    /\ finishing' = {}
    /\ alive' = [j \in Jobs |-> TRUE]
    /\ nextDue' = [j \in Jobs |-> now]
    /\ ready' = TRUE
    /\ lastEvent' = Ev("restart", None, None, None, "ok", <<>>)
    /\ UNCHANGED <<channels, nextChannel, dbVars, notices, calVars, slotsResult, env, now>>

\* The process is stopped and started again, up to the start of the loops in the
\* cogs' __init__: the connection is not established yet and every loop waits in
\* its before_loop.
Start ==
    /\ lock' = None
    /\ creating' = {}
    /\ req' = [p \in 1..MaxReqs |-> IdleReq]
    /\ active_tickets' = <<>>
    /\ views' = [c \in 1..MaxChannels |-> NoView]
    /\ controls' = {}
    /\ finishing' = {}
    /\ alive' = [j \in Jobs |-> TRUE]
    /\ nextDue' = [j \in Jobs |-> now]
    /\ ready' = FALSE
    /\ lastEvent' = Ev("start", None, None, None, "ok", <<>>)
    /\ UNCHANGED <<channels, nextChannel, dbVars, notices, calVars, slotsResult, env, now>>

\* The READY event arrives: wait_until_ready() returns in every before_loop and each
\* loop that waited runs its first iteration at once.
BotReady ==
    /\ ~ready
    /\ ready' = TRUE
    /\ nextDue' = [j \in Jobs |-> IF alive[j] THEN now ELSE nextDue[j]]
    /\ lastEvent' = Ev("on_ready", None, None, None, "ok", <<>>)
    /\ UNCHANGED <<alive, guardVars, wizardVars, dbVars, notices, calVars, slotsResult,
                   env, now>>

----------------------------------------------------------------------------
(* Initial state: the process has just started on an empty database, an empty   *)
(* ticket category and an empty calendar.                                        *)

DefaultEnv == [FREE_COACHING_DURATION |-> DefaultCoachingDuration,
               PAID_COACHING_DURATION |-> DefaultCoachingDuration,
               REMINDER_24H_ENABLED |-> TRUE,
               REMINDER_1H_ENABLED |-> TRUE]

NoResult == [day |-> None, duration |-> None, provider |-> "none", raised |-> FALSE,
             events |-> {}, slots |-> <<>>]

InitGuard ==
    /\ channels = {}
    /\ nextChannel = 1
    /\ lock = None
    /\ creating = {}
    /\ req = [p \in 1..MaxReqs |-> IdleReq]

InitWizard ==
    /\ active_tickets = <<>>
    /\ views = [c \in 1..MaxChannels |-> NoView]
    /\ controls = {}
    /\ finishing = {}

InitStore ==
    /\ clients = <<>>
    /\ bookings = <<>>
    /\ feedbacks = {}
    /\ notices = <<>>

InitCalendar ==
    /\ calendar = {}
    /\ nextEventId = 1
    /\ slotsResult = NoResult

InitJobs ==
    /\ alive = [j \in Jobs |-> TRUE]
    /\ nextDue = [j \in Jobs |-> now]
    /\ ready = TRUE

Init ==
    /\ InitGuard
    /\ InitWizard
    /\ InitStore
    /\ InitCalendar
    /\ env = DefaultEnv
    /\ now = 0
    /\ InitJobs
    /\ lastEvent = Ev("start", None, None, None, "ok", <<>>)

----------------------------------------------------------------------------
(* Ticket admission alone: presses of the booking button, ticket closes *)

GuardFrame ==
    UNCHANGED <<active_tickets, controls, finishing, dbVars, notices, calVars,
                slotsResult, env, now, jobVars>>

NextGuard ==
    \/ \E p \in 1..MaxReqs, u \in Users : Press(p, u) /\ GuardFrame
    \/ \E p \in 1..MaxReqs : Enter(p) /\ GuardFrame
    \/ \E p \in 1..MaxReqs, ok \in BOOLEAN : CreateChannel(p, ok) /\ GuardFrame
    \/ \E p \in 1..MaxReqs, ok \in BOOLEAN : SendWelcome(p, ok) /\ GuardFrame
    \/ \E p \in 1..MaxReqs, ok \in BOOLEAN : SendControls(p, ok) /\ GuardFrame
    \/ \E p \in 1..MaxReqs : Reply(p) /\ GuardFrame
    \/ \E id \in 1..MaxChannels : CloseTicket(id) /\ GuardFrame

SpecGuard == Init /\ [][NextGuard]_vars

\* Ticket admission through both doors: the booking button and /ticket create.
NextCreate ==
    \/ NextGuard
    \/ \E p \in 1..MaxReqs, who \in Users, u \in Users \ Coaches :
           TicketCreate(p, who, u) /\ GuardFrame

SpecCreate == Init /\ [][NextCreate]_vars

----------------------------------------------------------------------------
(* The availability resolver alone: the calendar holds foreign events (entered  *)
(* in the calendar by its owner), and the resolver is asked for a day.           *)

\* Instants at which the foreign events of the model start and end.
BusyPoints == {540, 585, 600, 660, 1185}

Durations == {30, 60, 90}

\* An event entered in the calendar from outside the bot; an all-day event is
\* reported with dates only and runs from midnight to midnight.
ForeignEvent(start, end) ==
    /\ start < end
    /\ Cardinality(calendar) < MaxBusy
    /\ \A ev \in calendar : ~(ev.start = start /\ ev.end = end)
    /\ calendar' = calendar \cup {[id |-> nextEventId, start |-> start, end |-> end]}
    /\ nextEventId' = nextEventId + 1
    /\ lastEvent' = Ev("foreign_event", None, None, start, "ok", <<>>)
    /\ UNCHANGED slotsResult

ResolveSlots(provider, d, duration_minutes) ==
    /\ slotsResult' = ResolveDay(provider, d, duration_minutes)
    /\ lastEvent' = Ev("get_available_slots", None, None, None, provider, <<>>)
    /\ UNCHANGED <<calendar, nextEventId>>

SlotsFrame ==
    UNCHANGED <<guardVars, wizardVars, dbVars, notices, env, now, jobVars>>

NextSlots ==
    \/ \E a, b \in BusyPoints : ForeignEvent(a, b) /\ SlotsFrame
    \/ \E d \in 0..MaxDayAhead : ForeignEvent(StartOfDay(d), EndOfDay(d)) /\ SlotsFrame
    \/ \E d \in 0..MaxDayAhead, m \in Durations : ResolveSlots("ok", d, m) /\ SlotsFrame
    \/ \E pr \in Providers \ {"ok"}, m \in Durations : ResolveSlots(pr, 0, m) /\ SlotsFrame

SpecSlots == Init /\ [][NextSlots]_vars

----------------------------------------------------------------------------
(* The wizard alone: two tickets are open, one for u1 and one for u2, each      *)
(* showing its BookingTypeView.                                                  *)

TicketOwners == <<"u1", "u2">>

\* n tickets have been opened with the booking button
TicketsOpen(n) ==
    /\ channels = {[id |-> i, readers |-> {TicketOwners[i]}, via |-> "button"] : i \in 1..n}
    /\ nextChannel = n + 1
    /\ lock = None
    /\ creating = {}
    /\ req = [p \in 1..MaxReqs |-> IdleReq]
    /\ active_tickets = <<>>
    /\ views = [c \in 1..MaxChannels |-> IF c <= n THEN View("type", <<>>) ELSE NoView]
    /\ controls = {}
    /\ finishing = {}

InitWith(n) ==
    /\ TicketsOpen(n)
    /\ InitStore
    /\ InitCalendar
    /\ env = DefaultEnv
    /\ now = 0
    /\ InitJobs
    /\ lastEvent = Ev("start", None, None, None, "ok", <<>>)

InitWizardSpec == InitWith(2)

WizardFrame == UNCHANGED <<guardVars, env, now, jobVars>>

Tickets == 1..MaxChannels

NextWizard ==
    \/ \E t \in Tickets, ty \in {BOOKING_TYPE_FREE, BOOKING_TYPE_PAID} :
           BookingTypeSelected(t, ty) /\ WizardFrame
    \/ \E t \in Tickets, n \in Quantities : QuantitySelected(t, n) /\ WizardFrame
    \/ \E t \in Tickets, pr \in Providers : DateSelected(t, 0, pr) /\ WizardFrame
    \/ \E t \in Tickets, s \in ChoosableStarts \ {1980}, ck \in BOOLEAN :
           SlotSelected(t, s, TRUE, ck) /\ WizardFrame
    \/ \E f \in finishing, o \in FinishOutcomes : SlotFinish(f, o) /\ WizardFrame

SpecWizard == InitWizardSpec /\ [][NextWizard]_vars

----------------------------------------------------------------------------
(* One ticket and the controls of its booking: the wizard, then reschedules and  *)
(* cancellations from StudentBookingControlsView.                                *)

InitManageSpec == InitWith(1)

NextManage ==
    \/ NextWizard
    \/ \E t \in Tickets, d \in 1..MaxDayAhead : DateSelected(t, d, "ok") /\ WizardFrame
    \/ \E t \in Tickets, s \in ChoosableStarts, dk, ck \in BOOLEAN :
           SlotSelected(t, s, dk, ck) /\ WizardFrame
    \/ \E t \in Tickets, b \in 1..MaxBookings, who \in Users :
           HandleRescheduleBooking(t, b, who) /\ WizardFrame
    \/ \E t \in Tickets, b \in 1..MaxBookings, who \in Users, dk \in BOOLEAN :
           HandleCancelBooking(t, b, who, dk) /\ WizardFrame

SpecManage == InitManageSpec /\ [][NextManage]_vars

\* The life of a booking: one ticket, a booking or a pack of two made in it, then
\* rescheduled or cancelled by its owner and managed by a coach with /booking.  The
\* owner selects a slot only when no earlier selection is still being answered.
NextAdmin ==
    \/ \E t \in Tickets, ty \in {BOOKING_TYPE_FREE, BOOKING_TYPE_PAID} :
           BookingTypeSelected(t, ty) /\ WizardFrame
    \/ \E t \in Tickets, n \in {1, 2} : QuantitySelected(t, n) /\ WizardFrame
    \/ \E t \in Tickets, d \in 0..MaxDayAhead : DateSelected(t, d, "ok") /\ WizardFrame
    \/ \E t \in Tickets, s \in ChoosableStarts, dk, ck \in BOOLEAN :
           finishing = {} /\ SlotSelected(t, s, dk, ck) /\ WizardFrame
    \/ \E f \in finishing : SlotFinish(f, "ok") /\ WizardFrame
    \/ \E t \in Tickets, b \in DOMAIN bookings :
           HandleRescheduleBooking(t, b, TicketUser(t)) /\ WizardFrame
    \/ \E t \in Tickets, b \in DOMAIN bookings, dk \in BOOLEAN :
           HandleCancelBooking(t, b, TicketUser(t), dk) /\ WizardFrame
    \/ \E a \in AdminActions, b \in DOMAIN bookings, who \in Users :
           AdminBooking(a, b, who) /\ WizardFrame
    \/ \E who \in Users : AddSessions(who) /\ WizardFrame

SpecAdmin == InitManageSpec /\ [][NextAdmin]_vars

(* One ticket: the wizard, cancellations from the controls of its booking, and   *)
(* the coach's /clear-bookings, after which the controls name a row that is gone. *)
NextCancel ==
    \/ \E t \in Tickets, ty \in {BOOKING_TYPE_FREE, BOOKING_TYPE_PAID} :
           BookingTypeSelected(t, ty) /\ WizardFrame
    \/ \E t \in Tickets, n \in {1, 2} : QuantitySelected(t, n) /\ WizardFrame
    \/ \E t \in Tickets, d \in 0..MaxDayAhead : DateSelected(t, d, "ok") /\ WizardFrame
    \/ \E t \in Tickets, s \in ChoosableStarts :
           finishing = {} /\ SlotSelected(t, s, TRUE, TRUE) /\ WizardFrame
    \/ \E f \in finishing : SlotFinish(f, "ok") /\ WizardFrame
    \/ \E t \in Tickets, b \in 1..MaxBookings, dk \in BOOLEAN :
           HandleCancelBooking(t, b, TicketUser(t), dk) /\ WizardFrame
    \/ \E who \in Users, dk \in BOOLEAN : ClearBookings(who, dk) /\ WizardFrame

SpecCancel == InitManageSpec /\ [][NextCancel]_vars

(* One ticket and one wizard session, with up to MaxSelections slot_selected     *)
(* callbacks of its CalendarSlotsView running at a time: the select stays live   *)
(* until the first callback has edited the message.                              *)
NextDouble ==
    \/ \E t \in Tickets, ty \in {BOOKING_TYPE_FREE, BOOKING_TYPE_PAID} :
           BookingTypeSelected(t, ty) /\ WizardFrame
    \/ \E t \in Tickets, n \in {1, 2} : QuantitySelected(t, n) /\ WizardFrame
    \/ \E t \in Tickets, d \in 0..MaxDayAhead : DateSelected(t, d, "ok") /\ WizardFrame
    \/ \E t \in Tickets, s \in ChoosableStarts, ck \in BOOLEAN :
           /\ Cardinality(finishing) < MaxSelections
           /\ slot_selected(t, s, TRUE, ck)
           /\ WizardFrame
    \/ \E f \in finishing : SlotFinish(f, "ok") /\ WizardFrame

SpecDouble == InitManageSpec /\ [][NextDouble]_vars

\* The wizard of two tickets whose views may time out at any stage.
NextTimeout ==
    \/ \E t \in Tickets, ty \in {BOOKING_TYPE_FREE, BOOKING_TYPE_PAID} :
           BookingTypeSelected(t, ty) /\ WizardFrame
    \/ \E t \in Tickets, n \in {1, 2} : QuantitySelected(t, n) /\ WizardFrame
    \/ \E t \in Tickets : DateSelected(t, 0, "ok") /\ WizardFrame
    \/ \E t \in Tickets, s \in ChoosableStarts \ {1980}, ck \in BOOLEAN :
           SlotSelected(t, s, TRUE, ck) /\ WizardFrame
    \/ \E f \in finishing : SlotFinish(f, "ok") /\ WizardFrame
    \/ \E t \in Tickets : ViewTimeout(t) /\ WizardFrame

SpecTimeout == InitWizardSpec /\ [][NextTimeout]_vars

----------------------------------------------------------------------------
(* The jobs: the process starts on the database an earlier run left (empty, or  *)
(* holding a pack of two booked the day before by u2 in a ticket closed since),  *)
(* u1 has a ticket open, the clock advances and the loops iterate.               *)

Envs ==
    {[DefaultEnv EXCEPT !.FREE_COACHING_DURATION = d] : d \in {30, DefaultCoachingDuration}}

\* the pack was booked AssumedExpiryDays + 1 days before the process starts
EarlierSlot == 540 - (AssumedExpiryDays + 1) * MinutesPerDay
EarlierCreated == 0 - (AssumedExpiryDays + 1) * MinutesPerDay - UtcOffset

EarlierPack ==
    /\ clients = <<[id |-> 1, discord_id |-> "u2", total_sessions |-> 1]>>
    /\ bookings =
           <<BookingRow(1, 1, 1, BOOKING_TYPE_PAID, EarlierSlot, env.PAID_COACHING_DURATION,
                        STATUS_CONFIRMED, EarlierCreated, 1, <<1, 2>>),
             BookingRow(2, 1, None, BOOKING_TYPE_PAID, EarlierSlot, env.PAID_COACHING_DURATION,
                        "pending_schedule", EarlierCreated, 1, <<2, 2>>)>>
    /\ feedbacks = {}
    /\ notices = <<NoNotices, NoNotices>>
    /\ calendar = {CalendarEvent(1, EarlierSlot, env.PAID_COACHING_DURATION)}
    /\ nextEventId = 2
    /\ slotsResult = NoResult

InitJobsSpec ==
    /\ env \in Envs
    /\ now \in 0..MaxPhase
    /\ channels = {[id |-> 2, readers |-> {"u1"}, via |-> "button"]}
    /\ nextChannel = 3
    /\ lock = None
    /\ creating = {}
    /\ req = [p \in 1..MaxReqs |-> IdleReq]
    /\ active_tickets = <<>>
    /\ views = [c \in 1..MaxChannels |-> IF c = 2 THEN View("type", <<>>) ELSE NoView]
    /\ controls = {}
    /\ finishing = {}
    /\ (InitStore /\ InitCalendar) \/ EarlierPack
    /\ InitJobs
    /\ lastEvent = Ev("start", None, None, None, "ok", <<>>)

TickFrame ==
    UNCHANGED <<guardVars, wizardVars, calVars, slotsResult, env, now>>

AdvanceFrame ==
    UNCHANGED <<guardVars, wizardVars, dbVars, notices, calVars, slotsResult, env>>

Acting == now <= MaxClickTime

NextJobs ==
    \/ \E t \in Tickets, ty \in {BOOKING_TYPE_FREE, BOOKING_TYPE_PAID} :
           Acting /\ BookingTypeSelected(t, ty) /\ WizardFrame
    \/ \E t \in Tickets, n \in {1, 2} : Acting /\ QuantitySelected(t, n) /\ WizardFrame
    \/ \E t \in Tickets, d \in 0..MaxDayAhead :
           Acting /\ DateSelected(t, d, "ok") /\ WizardFrame
    \/ \E t \in Tickets, s \in ChoosableStarts \ {570} :
           Acting /\ SlotSelected(t, s, TRUE, TRUE) /\ WizardFrame
    \/ \E f \in finishing : Acting /\ SlotFinish(f, "ok") /\ WizardFrame
    \/ \E t \in Tickets, b \in 1..MaxBookings :
           Acting /\ HandleRescheduleBooking(t, b, TicketUser(t)) /\ WizardFrame
    \/ TickReminders /\ TickFrame
    \/ TickCompletion /\ TickFrame
    \/ TickExpiry /\ TickFrame
    \/ Advance /\ AdvanceFrame
    \/ Restart

SpecJobs == InitJobsSpec /\ [][NextJobs]_vars

(* The loops from the start of the process to the READY event and after: the     *)
(* process may be started again at any instant and the event may take any time.  *)
NextReady ==
    \/ Start
    \/ BotReady
    \/ TickReminders /\ TickFrame
    \/ TickCompletion /\ TickFrame
    \/ TickExpiry /\ TickFrame
    \/ Advance /\ AdvanceFrame

SpecReady == InitJobsSpec /\ [][NextReady]_vars

(* The loops next to bookings made and cancelled in a ticket.                    *)
NextRemind ==
    \/ \E t \in Tickets, ty \in {BOOKING_TYPE_FREE, BOOKING_TYPE_PAID} :
           Acting /\ BookingTypeSelected(t, ty) /\ WizardFrame
    \/ \E t \in Tickets, n \in {1, 2} : Acting /\ QuantitySelected(t, n) /\ WizardFrame
    \/ \E t \in Tickets, d \in 0..MaxDayAhead :
           Acting /\ DateSelected(t, d, "ok") /\ WizardFrame
    \/ \E t \in Tickets, s \in ChoosableStarts \ {570} :
           Acting /\ SlotSelected(t, s, TRUE, TRUE) /\ WizardFrame
    \/ \E f \in finishing : Acting /\ SlotFinish(f, "ok") /\ WizardFrame
    \/ \E t \in Tickets, b \in 1..MaxBookings :
           Acting /\ HandleCancelBooking(t, b, TicketUser(t), TRUE) /\ WizardFrame
    \/ TickReminders /\ TickFrame
    \/ TickCompletion /\ TickFrame
    \/ TickExpiry /\ TickFrame
    \/ Advance /\ AdvanceFrame

SpecRemind == InitJobsSpec /\ [][NextRemind]_vars

----------------------------------------------------------------------------
(* Claims *)

ButtonTicketsOf(u) == {c \in channels : u \in c.readers /\ c.via = "button"}

\* C1: whatever the interleaving of booking-button presses of one non-coach user,
\* at most one ticket channel created by the button is open for that user.
C1_AtMostOneTicketPerUser ==
    \A u \in Users \ Coaches : Cardinality(ButtonTicketsOf(u)) <= 1

\* C1, its case: two presses of the same non-coach user are in flight, the first
\* has created its channel and still holds the lock, the second waits for the lock.
C1_Witness ==
    \E p, q \in DOMAIN req :
        /\ p # q
        /\ req[p].user = req[q].user
        /\ ~is_coach(req[p].user)
        /\ req[p].pc = "controls"
        /\ ChannelExists(req[p].chan)
        /\ lock = p
        /\ req[q].pc = "deferred"

\* Half-open intervals [scheduled_at, scheduled_at + duration_minutes) of two rows
BookingsOverlap(a, b) ==
    /\ a.scheduled_at < b.scheduled_at + b.duration_minutes
    /\ b.scheduled_at < a.scheduled_at + a.duration_minutes

\* C2: whatever the interleaving of the wizard sessions of different tickets, no two
\* confirmed bookings made in different tickets have overlapping half-open intervals
\* [scheduledAt, scheduledAt + durationMinutes).
C2_NoDoubleBooking ==
    \A i, j \in DOMAIN bookings :
        (/\ i < j
         /\ bookings[i].status = STATUS_CONFIRMED
         /\ bookings[j].status = STATUS_CONFIRMED
         /\ bookings[i].ticket_channel_id # bookings[j].ticket_channel_id)
        => ~BookingsOverlap(bookings[i], bookings[j])

\* getattr(row, name) == v, for a row that has the attribute
AttrIs(row, name, v) == name \in DOMAIN row /\ row[name] = v

RescheduledStep ==
    lastEvent'.op = "slot_selected" /\ lastEvent'.result = "Rescheduled"

\* C3: a successful reschedule leaves the booking's id and clientId unchanged, sets
\* scheduledAt to the chosen instant and externalEventId to the newly created event
\* id, and sets reminder24hSent and reminder1hSent to false.
C3_RescheduleFrame ==
    [][RescheduledStep =>
          LET b == lastEvent'.booking IN
          /\ bookings'[b].id = bookings[b].id
          /\ bookings'[b].client_id = bookings[b].client_id
          /\ bookings'[b].scheduled_at = lastEvent'.slot
          /\ bookings'[b].google_event_id = nextEventId
          /\ \E ev \in calendar' : ev.id = nextEventId /\ ev.start = lastEvent'.slot
          /\ AttrIs(bookings'[b], "reminder_24h_sent", FALSE)
          /\ AttrIs(bookings'[b], "reminder_1h_sent", FALSE)]_vars

\* C4: while the reminder job iterates every 15 minutes, each of the two notices
\* (24h, 1h) is sent at most once per booking for one value of scheduledAt (the
\* counts of a booking start again when it is rescheduled).
C4_RemindersAtMostOnce ==
    \A b \in DOMAIN notices : notices[b].r24 <= 1 /\ notices[b].r1 <= 1

\* C4, its case: check_reminders has just iterated while a confirmed booking was
\* inside one of its two windows.
C4_Witness ==
    /\ lastEvent.op = "check_reminders"
    /\ \E b \in DOMAIN bookings :
           /\ bookings[b].status = STATUS_CONFIRMED
           /\ \/ In24hWindow(bookings[b].scheduled_at - now)
              \/ In1hWindow(bookings[b].scheduled_at - now)

BookingCreatedStep ==
    lastEvent'.op = "slot_selected" /\ lastEvent'.result = "BookingCreated"

\* C5: a successful new-booking slot selection with stored quantity n persists exactly
\* n new bookings, all of one client: exactly one confirmed with an event id, and
\* exactly n - 1 pending_schedule without an event id.
C5_PackRows ==
    [][BookingCreatedStep =>
          LET n == DictGet(active_tickets[lastEvent'.ticket], "quantity", 1)
              new == DOMAIN bookings' \ DOMAIN bookings
          IN  /\ n \in Quantities
              /\ \A i \in DOMAIN bookings : bookings'[i] = bookings[i]
              /\ Cardinality(new) = n
              /\ \E c \in DOMAIN clients' : \A i \in new : bookings'[i].client_id = c
              /\ Cardinality({i \in new : /\ bookings'[i].status = STATUS_CONFIRMED
                                          /\ bookings'[i].google_event_id # None}) = 1
              /\ Cardinality({i \in new : /\ bookings'[i].status = "pending_schedule"
                                          /\ bookings'[i].google_event_id = None}) = n - 1]_vars

\* C5, its case: a pack of 8 has just been committed for a client who had bookings.
C5_Witness ==
    /\ lastEvent.op = "slot_selected"
    /\ lastEvent.result = "BookingCreated"
    /\ lastEvent.ticket \in DOMAIN active_tickets
    /\ DictGet(active_tickets[lastEvent.ticket], "quantity", 1) = 8
    /\ lastEvent.booking = 2
    /\ Len(bookings) = 9

FailedNewBookingStep ==
    /\ lastEvent'.op \in {"slot_selected", "slot_selected_end"}
    /\ lastEvent'.result = "CalendarWriteFailed"
    /\ lastEvent'.booking = None

\* C6: when the event creation fails during a new-booking slot selection, nothing is
\* written to the store: no Booking row, no Client row (also for a user who had
\* none), no change of a Client's totalSessions.
C6_FailureWritesNothing ==
    [][FailedNewBookingStep => (clients' = clients /\ bookings' = bookings)]_vars

\* C7: an iteration of the completion job at now = scheduledAt + durationMinutes + 1
\* sets a confirmed booking that has no Feedback row to completed and sends its
\* feedback request once.
C7_CompletedAtEndPlusOne ==
    [][lastEvent'.op = "check_completed_sessions" =>
          \A b \in DOMAIN bookings :
              (/\ bookings[b].status = STATUS_CONFIRMED
               /\ b \notin feedbacks
               /\ now = bookings[b].scheduled_at + bookings[b].duration_minutes + 1)
              => /\ bookings'[b].status = STATUS_COMPLETED
                 /\ notices'[b].feedback = notices[b].feedback + 1]_vars

\* C8: no start returned by get_available_slots(D, M) overlaps a busy interval the
\* provider reported for the day: NOT (s < be AND s + M > bs).
C8_SlotsAvoidBusy ==
    \A i \in DOMAIN slotsResult.slots : \A ev \in slotsResult.events :
        ~(slotsResult.slots[i] < ev.end
          /\ slotsResult.slots[i] + slotsResult.duration > ev.start)

\* C8, its case: the provider reported a busy interval inside business hours and the
\* resolver returned some starts but not the whole grid.
C8_Witness ==
    /\ slotsResult.provider = "ok"
    /\ \E ev \in slotsResult.events : ev.end - ev.start < MinutesPerDay
    /\ Len(slotsResult.slots) > 0
    /\ Len(slotsResult.slots) < 22

OneBusyTenToEleven ==
    /\ slotsResult.provider = "ok"
    /\ slotsResult.duration = 60
    /\ {<<ev.start, ev.end>> : ev \in slotsResult.events}
           = {<<StartOfDay(slotsResult.day) + 600, StartOfDay(slotsResult.day) + 660>>}

DayStarts(minutes) == {StartOfDay(slotsResult.day) + m : m \in minutes}

\* C9 as stated: business hours 09:00-20:00, 60 minutes, one busy interval
\* 10:00-11:00: 09:00 and 09:30 are returned, no returned start ends after 10:00 and
\* begins before 11:00, and 11:00, 11:30, ... 19:30 are returned.
C9_AsStated ==
    OneBusyTenToEleven =>
        /\ DayStarts({540, 570}) \subseteq SeqToSet(slotsResult.slots)
        /\ \A s \in SeqToSet(slotsResult.slots) :
               ~(s + 60 > StartOfDay(slotsResult.day) + 600
                 /\ s < StartOfDay(slotsResult.day) + 660)
        /\ DayStarts({660 + 30 * k : k \in 0..17}) \subseteq SeqToSet(slotsResult.slots)

\* C9, amended: in that scenario the starts returned are exactly 09:00, then 11:00,
\* 11:30, ... 19:30, in that order; 09:30 is not returned, since it would end at
\* 10:30, inside the busy interval.
C9_ScenarioTenToEleven ==
    OneBusyTenToEleven =>
        /\ SeqToSet(slotsResult.slots) = DayStarts({540} \cup {660 + 30 * k : k \in 0..17})
        /\ \A i, j \in DOMAIN slotsResult.slots :
               i < j => slotsResult.slots[i] < slotsResult.slots[j]

\* C9, its case: the resolver was asked for such a day and answered.
C9_Witness ==
    OneBusyTenToEleven /\ Len(slotsResult.slots) = 19


\* C10: an iteration of the pack expiry job cancels every pending_schedule booking
\* created at or before now - expiryDays, and attempts no calendar delete.
C10_ExpiryCancelsPending ==
    [][lastEvent'.op = "check_pack_expiry" =>
          /\ \A b \in DOMAIN bookings :
                 (/\ bookings[b].status = "pending_schedule"
                  /\ bookings[b].created_at <= now - AssumedExpiryDays * MinutesPerDay)
                 => bookings'[b].status = STATUS_CANCELLED
          /\ lastEvent'.calls = <<>>
          /\ calendar' = calendar]_vars

\* A button request of a non-coach between entering `async with` and leaving it
InCritical(p) ==
    /\ req[p].kind = "button"
    /\ req[p].pc \in {"reply_busy", "reply_dup", "create", "welcome", "controls", "result"}

\* C14: the lock is held only by a request inside the critical section and only the
\* user of that request is marked as creating; hence when no request is inside the
\* critical section the lock is free and the creating set is empty.
C14_LockAndMarkerReleased ==
    /\ lock # None => (lock \in DOMAIN req /\ InCritical(lock))
    /\ \A u \in creating : lock # None /\ req[lock].user = u
    /\ (\A p \in DOMAIN req : ~InCritical(p)) => (lock = None /\ creating = {})

\* C14, its case: a creation has just failed inside create_ticket and the handler has
\* left the critical section after its reply.
C14_Witness ==
    /\ lastEvent.op = "booking_button"
    /\ lastEvent.result = "CreationFailed"
    /\ \A p \in DOMAIN req : ~InCritical(p)
    /\ \E p \in DOMAIN req : req[p].pc = "deferred" /\ req[p].kind = "button"

\* C15: while a request of a non-coach user is inside the critical section and has
\* marked the user as creating, no second request of the same user is left waiting
\* for the lock (it has been answered AlreadyInProgress instead).
C15_SecondTriggerShortCircuits ==
    \A p, q \in DOMAIN req :
        (/\ p # q
         /\ lock = p
         /\ req[p].user \in creating
         /\ req[q].user = req[p].user
         /\ req[q].kind = "button")
        => req[q].pc # "deferred"

\* C17: a button request of a non-coach user who owns an open ticket, once it holds
\* the lock, is answered DuplicateTicket with a ticket of that user; no channel is
\* created and the user is not added to the creating set.
C17_DuplicateTicketRefused ==
    [][\A p \in DOMAIN req :
          /\ (/\ req[p].pc = "deferred"
              /\ req[p].kind = "button"
              /\ req'[p].pc # "deferred"
              /\ \E c \in channels : req[p].user \in c.readers)
             => /\ req'[p].pc = "reply_dup"
                /\ \E c \in channels : c.id = req'[p].chan /\ req[p].user \in c.readers
                /\ creating' = creating
                /\ req[p].user \notin creating'
                /\ channels' = channels
          /\ (req[p].pc = "reply_dup" /\ req'[p].pc # "reply_dup")
             => /\ req'[p].pc = "idle"
                /\ lastEvent'.result = "DuplicateTicket"
                /\ lastEvent'.ticket = req[p].chan
                /\ creating' = creating
                /\ req[p].user \notin creating'
                /\ channels' = channels]_vars

\* C17, its case: the owner of an open ticket has just been answered DuplicateTicket,
\* naming that ticket.
C17_Witness ==
    /\ lastEvent.op = "booking_button"
    /\ lastEvent.result = "DuplicateTicket"
    /\ \E c \in channels : c.id = lastEvent.ticket /\ c.via = "button"

\* C18: a button request of a coach never holds the lock and is never answered from
\* the creating set or the existing-ticket scan: after its defer it goes straight to
\* create_text_channel, whoever holds the lock and whatever tickets the coach owns,
\* leaving the lock and the creating set alone.
C18_CoachBypassesGuard ==
    [][\A p \in DOMAIN req :
          (req[p].pc # "idle" /\ req[p].kind # "command" /\ req[p].user \in Coaches)
          => /\ lock' # p
             /\ req'[p].pc \notin {"reply_busy", "reply_dup"}
             /\ req[p].user \notin creating'
             /\ (req[p].pc = "deferred" /\ req'[p].pc # "deferred")
                => (req'[p].pc = "create" /\ lock' = lock /\ creating' = creating)]_vars

\* C18, its case: a coach who already owns a ticket has got a second channel created
\* while another user's request holds the lock.
C18_Witness ==
    \E p \in DOMAIN req :
        /\ req[p].user \in Coaches
        /\ req[p].pc = "welcome"
        /\ lock \notin {None, p}
        /\ Cardinality({c \in channels : req[p].user \in c.readers}) = 2

TicketsOf(u) == {c \in channels : u \in c.readers}

\* C19: whatever the interleaving of booking-button presses and /ticket create
\* commands, at most one ticket channel is open for a non-coach user.
C19_AtMostOneTicketAllPaths ==
    \A u \in Users \ Coaches : Cardinality(TicketsOf(u)) <= 1

\* C20: selecting the free type stores a session of type free with quantity 1 and
\* shows the date selector; selecting the paid type stores a session of type paid
\* without a quantity and shows the quantity selector.
C20_TypeSelection ==
    [][\A t \in Tickets :
          (lastEvent'.op = "booking_type_selected" /\ lastEvent'.ticket = t)
          => /\ t \in DOMAIN active_tickets'
             /\ active_tickets'[t].booking_type = lastEvent'.result
             /\ active_tickets'[t].user = TicketUser(t)
             /\ lastEvent'.result = BOOKING_TYPE_FREE
                => /\ DictGet(active_tickets'[t], "quantity", None) = 1
                   /\ views[t].kind = "type"
                   /\ views'[t].kind = "date"
             /\ lastEvent'.result = BOOKING_TYPE_PAID
                => /\ "quantity" \notin DOMAIN active_tickets'[t]
                   /\ views[t].kind = "type"
                   /\ views'[t].kind = "quantity"]_vars

\* C20, its case: one ticket has taken the free path and shows the date selector,
\* the other has just taken the paid path and shows the quantity selector.
C20_Witness ==
    /\ lastEvent.op = "booking_type_selected"
    /\ lastEvent.result = BOOKING_TYPE_PAID
    /\ views[lastEvent.ticket].kind = "quantity"
    /\ \E t \in DOMAIN active_tickets :
           /\ active_tickets[t].booking_type = BOOKING_TYPE_FREE
           /\ views[t].kind = "date"

\* C13: a date or slot selection for a ticket that has no session is answered
\* SessionExpired and writes nothing: the calendar, the bookings, the clients and
\* the sessions are as before.
C13_SessionExpiredWritesNothing ==
    [][(/\ lastEvent'.op \in {"date_selected", "slot_selected"}
        /\ lastEvent'.ticket \notin DOMAIN active_tickets)
       => /\ lastEvent'.result = "SessionExpired"
          /\ calendar' = calendar
          /\ nextEventId' = nextEventId
          /\ bookings' = bookings
          /\ clients' = clients
          /\ active_tickets' = active_tickets]_vars

\* C13, its case: a slot has just been selected in a view that outlived its session
\* (the session was discarded at the end of a reschedule), with a booking and its
\* event in place.
C13_Witness ==
    /\ lastEvent.op = "slot_selected"
    /\ lastEvent.result = "SessionExpired"
    /\ lastEvent.ticket \notin DOMAIN active_tickets
    /\ bookings # <<>>
    /\ calendar # {}

TerminalStatuses == {STATUS_COMPLETED, STATUS_CANCELLED, STATUS_NO_SHOW}

\* C11: a booking whose status is completed, cancelled or no_show keeps that status
\* in every later step.
C11_TerminalStatusesStay ==
    [][\A b \in DOMAIN bookings :
          bookings[b].status \in TerminalStatuses
          => (b \in DOMAIN bookings' /\ bookings'[b].status = bookings[b].status)]_vars

C16_JobsSurviveFailures ==
    [][\A j \in {"check_reminders", "check_completed_sessions"} :
          alive[j] => alive'[j]]_vars

\* C21: a quantity selection carries one of the six option values 1, 2, 3, 4, 5, 8;
\* it stores that value in the session of the ticket, leaves the rest of the session
\* alone and replaces the quantity selector by the date selector; and as long as the
\* date selector stays, the session exists and is not changed.
C21_QuantitySelection ==
    [][\A t \in Tickets :
          /\ (lastEvent'.op = "quantity_selected" /\ lastEvent'.ticket = t)
             => /\ views[t].kind = "quantity"
                /\ views'[t].kind = "date"
                /\ t \in DOMAIN active_tickets
                /\ t \in DOMAIN active_tickets'
                /\ \E n \in Quantities :
                      /\ lastEvent'.result = ToString(n)
                      /\ active_tickets'[t] = DictSet(active_tickets[t], "quantity", n)
          /\ (views[t].kind = "date" /\ views'[t].kind = "date")
             => /\ t \in DOMAIN active_tickets
                /\ t \in DOMAIN active_tickets'
                /\ active_tickets'[t] = active_tickets[t]
                /\ active_tickets[t].quantity \in Quantities]_vars

\* C21, its case: the pack of eight has just been chosen in a ticket whose session
\* is of the paid type, and the ticket shows the date selector.
C21_Witness ==
    /\ lastEvent.op = "quantity_selected"
    /\ lastEvent.result = "8"
    /\ views[lastEvent.ticket].kind = "date"
    /\ lastEvent.ticket \in DOMAIN active_tickets
    /\ active_tickets[lastEvent.ticket].booking_type = BOOKING_TYPE_PAID
    /\ active_tickets[lastEvent.ticket].quantity = 8

\* The starts the resolver returns for the day and the session of a date selection,
\* when the provider answers.
SlotsOfDay(t, d) ==
    get_available_slots("ok", StartOfDay(d), EndOfDay(d),
                        DurationFor(active_tickets[t].booking_type), calendar)

\* C22: a date selection in a ticket that has a session, the resolver having
\* returned: when it returned no start (none is free, or the provider failed) the
\* date selector is shown again and the session is unchanged; otherwise the slot
\* selector is shown with the starts returned and the session is unchanged; neither
\* writes a booking, a client or a calendar event.
C22_DateSelection ==
    [][\A t \in Tickets :
          (/\ lastEvent'.op = "date_selected"
           /\ lastEvent'.ticket = t
           /\ lastEvent'.result \in {"NoSlots", "ok"})
          => LET returned == IF lastEvent'.provider = "ok"
                             THEN SlotsOfDay(t, lastEvent'.day) ELSE <<>>
             IN  /\ t \in DOMAIN active_tickets
                 /\ views[t].kind = "date"
                 /\ active_tickets' = active_tickets
                 /\ lastEvent'.result = "NoSlots" <=> returned = <<>>
                 /\ returned = <<>> => views'[t] = View("date", <<>>)
                 /\ returned # <<>> => views'[t] = View("slots", returned)
                 /\ bookings' = bookings
                 /\ clients' = clients
                 /\ calendar' = calendar
                 /\ nextEventId' = nextEventId
                 /\ finishing' = finishing]_vars

\* C22, its case: one ticket has just been refused a day because the list call of
\* the provider failed, and is shown the date selector again; the other ticket was
\* offered the starts of the same day and shows them.
C22_Witness ==
    /\ lastEvent.op = "date_selected"
    /\ lastEvent.result = "NoSlots"
    /\ lastEvent.provider = "HttpError"
    /\ views[lastEvent.ticket].kind = "date"
    /\ lastEvent.ticket \in DOMAIN active_tickets
    /\ \E t \in DOMAIN active_tickets :
           /\ views[t].kind = "slots"
           /\ Len(views[t].slots) > 0

\* The candidate starts of the day d: every 30 minutes from 09:00 to 19:30.
GridOfDay(d) == {StartOfDay(d) + 540 + 30 * k : k \in 0..21}

\* C23: asked for one day and a duration M, with the provider answering, the
\* resolver returns in strictly increasing order exactly the starts s of the
\* half-hour grid 09:00 ... 19:30 of that day for which [s, s + M) meets no event of
\* the calendar; the grid is the same for every M, so a free start is returned even
\* when s + M lies after 20:00.
C23_SlotsAreTheFreeGrid ==
    [][(lastEvent'.op = "get_available_slots" /\ lastEvent'.result = "ok")
       => LET r == slotsResult'
              M == r.duration
          IN  /\ SeqToSet(r.slots) =
                    {s \in GridOfDay(r.day) :
                        \A ev \in calendar : ~(s < ev.end /\ s + M > ev.start)}
              /\ \A i, j \in DOMAIN r.slots : i < j => r.slots[i] < r.slots[j]]_vars

\* C23, its case: for a duration of 90 minutes the resolver returned 19:30, whose
\* session ends at 21:00, and left out a start of the grid that meets an event.
C23_Witness ==
    /\ slotsResult.provider = "ok"
    /\ slotsResult.duration = 90
    /\ StartOfDay(slotsResult.day) + 1170 \in SeqToSet(slotsResult.slots)
    /\ slotsResult.events # {}
    /\ GridOfDay(slotsResult.day) \ SeqToSet(slotsResult.slots) # {}

\* C24: whenever the provider cannot be asked or its list call fails, the resolver
\* returns the empty sequence instead of raising, and the date selection is answered
\* as for a day without a free start: the date selector is shown again with the
\* error.
C24_ProviderFailureIsNoSlots ==
    [][\A t \in Tickets :
          (/\ lastEvent'.op = "date_selected"
           /\ lastEvent'.ticket = t
           /\ lastEvent'.provider \in Providers \ {"ok"})
          => /\ lastEvent'.result = "NoSlots"
             /\ views'[t] = View("date", <<>>)
             /\ active_tickets' = active_tickets]_vars

\* C25: a slot selection that commits a new booking, of any quantity, leaves the
\* client of the session's user with total_sessions one higher than before, the
\* client being the row with the user's discord id, or a row appended for that user
\* and counted from 0; every other client row is unchanged.
C25_TotalSessionsPlusOne ==
    [][BookingCreatedStep =>
          LET user == active_tickets[lastEvent'.ticket].user
              known == {i \in DOMAIN clients : clients[i].discord_id = user}
              c == bookings'[lastEvent'.booking].client_id
          IN  /\ c \in DOMAIN clients'
              /\ clients'[c].discord_id = user
              /\ {i \in DOMAIN clients' : clients'[i].discord_id = user} = {c}
              /\ IF known # {}
                 THEN /\ known = {c}
                      /\ DOMAIN clients' = DOMAIN clients
                      /\ clients'[c].total_sessions = clients[c].total_sessions + 1
                 ELSE /\ DOMAIN clients' = DOMAIN clients \cup {c}
                      /\ c \notin DOMAIN clients
                      /\ clients'[c].total_sessions = 1
              /\ \A i \in DOMAIN clients \ {c} : clients'[i] = clients[i]]_vars

\* C25, its case: a pack has just been committed for a client who had one session
\* counted already, while another client row exists.
C25_Witness ==
    /\ lastEvent.op = "slot_selected"
    /\ lastEvent.result = "BookingCreated"
    /\ Len(bookings) - lastEvent.booking >= 1
    /\ clients[bookings[lastEvent.booking].client_id].total_sessions = 2
    /\ Len(clients) = 2

\* The number of calls of the given name among the calendar calls of a step.
CallsOf(name, calls) == Cardinality({i \in DOMAIN calls : calls[i] = name})

\* The rows that are placeholders of a pack.
PendingSchedule(rows) == {b \in DOMAIN rows : rows[b].status = "pending_schedule"}

DeleteFailedStep ==
    /\ lastEvent'.op = "slot_selected"
    /\ lastEvent'.calls # <<>>
    /\ Head(lastEvent'.calls) = "delete"
    /\ lastEvent'.booking \in DOMAIN bookings
    /\ \E ev \in calendar : /\ ev.id = bookings[lastEvent'.booking].google_event_id
                            /\ ev \in calendar'

\* C27: in a reschedule, when deleting the old event fails, the creation of the new
\* event is still called, and when it succeeds the booking is committed with the
\* selected start and the id of the new event; the step is abandoned only when the
\* creation fails.
C27_DeleteFailureDoesNotAbort ==
    [][DeleteFailedStep =>
          LET b == lastEvent'.booking IN
          /\ lastEvent'.calls = <<"delete", "create">>
          /\ lastEvent'.result \in {"Rescheduled", "CalendarWriteFailed"}
          /\ lastEvent'.result = "Rescheduled" <=> calendar' \ calendar # {}
          /\ lastEvent'.result = "Rescheduled"
             => /\ bookings'[b].scheduled_at = lastEvent'.slot
                /\ \E ev \in calendar' \ calendar :
                       /\ bookings'[b].google_event_id = ev.id
                       /\ ev.start = lastEvent'.slot
                /\ bookings'[b].google_event_id # bookings[b].google_event_id
                /\ bookings'[b].status = bookings[b].status]_vars

\* C27, its case: a booking has just been rescheduled while its old event, which
\* could not be deleted, is still in the calendar beside the new one.
C27_Witness ==
    /\ lastEvent.op = "slot_selected"
    /\ lastEvent.result = "Rescheduled"
    /\ lastEvent.calls = <<"delete", "create">>
    /\ Cardinality(calendar) = 2
    /\ \E ev \in calendar : \A b \in DOMAIN bookings : bookings[b].google_event_id # ev.id
    /\ \E ev \in calendar : bookings[lastEvent.booking].google_event_id = ev.id

\* A slot selection of a reschedule session in which the creation of the new event
\* failed.
RescheduleCreateFailedStep ==
    /\ lastEvent'.op = "slot_selected"
    /\ lastEvent'.result = "CalendarWriteFailed"
    /\ lastEvent'.booking \in DOMAIN bookings

\* C28: when the creation of the new event fails during a reschedule, the booking
\* keeps its start, its event id and its status, and the event of that id, which
\* was in the calendar before, is still in the calendar.
C28_FailedRescheduleLeavesNoTrace ==
    [][RescheduleCreateFailedStep =>
          LET b == lastEvent'.booking IN
          /\ bookings'[b] = bookings[b]
          /\ \A ev \in calendar :
                 ev.id = bookings[b].google_event_id => ev \in calendar']_vars

\* The slot_selected handler of a ticket ends after it committed a new booking or a
\* reschedule.
CommittedHandlerEnds ==
    /\ lastEvent'.op = "slot_selected_end"
    /\ lastEvent'.booking # None

\* C29: when a slot selection that committed a booking or a reschedule has ended,
\* the ticket has no session; and a date or slot selection in a ticket without
\* session is answered SessionExpired, which lasts until a type selection or a
\* reschedule request stores a session again.
C29_NoSessionAfterCommit ==
    [][/\ CommittedHandlerEnds => lastEvent'.ticket \notin DOMAIN active_tickets'
       /\ (/\ lastEvent'.op \in {"date_selected", "slot_selected"}
           /\ lastEvent'.ticket \notin DOMAIN active_tickets)
          => lastEvent'.result = "SessionExpired"
       /\ \A t \in Tickets :
             (t \notin DOMAIN active_tickets /\ t \in DOMAIN active_tickets')
             => lastEvent'.op \in {"booking_type_selected", "handle_reschedule_booking"}]_vars

\* C30: when the view of a wizard step times out, the session of the ticket is
\* removed from active_tickets, so that the ticket has no session afterwards, and
\* no booking exists that was made in that ticket.
C30_TimeoutRemovesSession ==
    [][lastEvent'.op = "on_timeout" =>
          /\ lastEvent'.ticket \notin DOMAIN active_tickets'
          /\ \A b \in DOMAIN bookings' :
                 bookings'[b].ticket_channel_id # lastEvent'.ticket]_vars

\* The booking b is sent the notice counted in field f by the step.
NoticeSent(b, f) == b \in DOMAIN notices /\ notices'[b][f] > notices[b][f]

\* The flag of the name is set on the row after the step.
FlagSetAfter(b, name) ==
    name \in DOMAIN bookings'[b] /\ bookings'[b][name] = TRUE

WindowPassed(b, opens, closes) ==
    /\ bookings[b].status = STATUS_CONFIRMED
    /\ bookings[b].created_at + UtcOffset < opens
    /\ opens > MaxPhase
    /\ now > closes

\* C32: with the reminder job iterating every 15 minutes from any phase, a booking
\* that stayed confirmed at the same instant through its 24h window has been sent
\* the 24h notice exactly once when the window has closed, and likewise the 1h
\* notice for its 1h window.
C32_RemindedExactlyOnce ==
    \A b \in DOMAIN bookings :
        /\ WindowPassed(b, bookings[b].scheduled_at - 1455, bookings[b].scheduled_at - 1425)
           => notices[b].r24 = 1
        /\ WindowPassed(b, bookings[b].scheduled_at - 75, bookings[b].scheduled_at - 45)
           => notices[b].r1 = 1

\* C33: with the completion job iterating every 30 minutes, a confirmed booking made
\* before its start, whose session began while the process ran and ended a full
\* interval ago, has been moved on from confirmed, whatever its duration.
C33_EventuallyCompleted ==
    \A b \in DOMAIN bookings :
        (/\ bookings[b].scheduled_at > MaxPhase
         /\ bookings[b].created_at + UtcOffset < bookings[b].scheduled_at
         /\ now >= bookings[b].scheduled_at + bookings[b].duration_minutes
                       + CompletionInterval)
        => bookings[b].status # STATUS_CONFIRMED

\* the rows an iteration of job j would notify or write, by the conditions its loop
\* body tests on the rows of its query
JobActsOn(j) ==
    CASE j = "check_reminders" ->
            {b \in UpcomingConfirmed : Sends24h(b) \/ Sends1h(b)}
      [] j = "check_completed_sessions" ->
            {b \in RecentlyStarted :
                /\ ~CompareRaises(SessionEnd(b), Aware(now))
                /\ SessionEnd(b).t <= now}
      [] j = "check_pack_expiry" ->
            {b \in DOMAIN bookings :
                /\ {"PACK_EXPIRY_DAYS", "STATUS_PENDING_SCHEDULE"} \subseteq ConfigNames
                /\ bookings[b].status = "pending_schedule"
                /\ bookings[b].created_at <= now - AssumedExpiryDays * MinutesPerDay}

\* C34: an iteration of a job writes and notifies only the rows its predicate selects,
\* leaves the clients, the feedback rows and the set of bookings as they were, and
\* leaves no row on which a second iteration at the same instant would act: running it
\* twice gives the store and the notifications of running it once.
C34_JobsIdempotent ==
    [][\A j \in Jobs :
          lastEvent'.op = j =>
              /\ DOMAIN bookings' = DOMAIN bookings
              /\ \A b \in DOMAIN bookings :
                     b \notin JobActsOn(j) =>
                         bookings'[b] = bookings[b] /\ notices'[b] = notices[b]
              /\ clients' = clients /\ feedbacks' = feedbacks /\ now' = now
              /\ JobActsOn(j)' = {}]_vars

\* an iteration has just run over a store holding a confirmed booking inside a reminder
\* window and a placeholder outside every predicate
C34_Witness ==
    /\ lastEvent.op = "check_reminders"
    /\ \E b \in DOMAIN bookings :
           /\ bookings[b].status = STATUS_CONFIRMED
           /\ In1hWindow(bookings[b].scheduled_at - now)
    /\ \E b \in DOMAIN bookings : bookings[b].status = "pending_schedule"

\* C35: no iteration of check_reminders, check_completed_sessions or check_pack_expiry
\* runs while the connection is not ready: the READY event comes before the first
\* iteration of each loop, and no loop has ended before it.
C35_NoTickBeforeReady ==
    [][/\ lastEvent'.op \in Jobs => ready /\ ready'
       /\ ~ready' => \A j \in Jobs : alive'[j]]_vars

\* an iteration of the completion job off the phase of the first start: the process
\* was started again, the loop waited for the READY event and then ran
C35_Witness ==
    /\ lastEvent.op = "check_completed_sessions"
    /\ ready
    /\ now % CompletionInterval >= ReminderInterval

\* the step is handle_cancel_booking called for booking id b
CancelStep(b) == lastEvent'.op = "handle_cancel_booking" /\ lastEvent'.booking = b

\* C36: a cancellation from the student's controls sets a row that is not cancelled yet
\* to cancelled and commits, whether or not the calendar delete succeeds, changing
\* nothing else of the store; for a row already cancelled it answers with an error and
\* touches neither store nor calendar; for an id without a row it answers not-found
\* and touches nothing.
C36_CancelOutcomes ==
    [][\A b \in 1..MaxBookings :
          CancelStep(b) =>
              /\ clients' = clients /\ feedbacks' = feedbacks
              /\ IF b \notin DOMAIN bookings
                 THEN /\ lastEvent'.result = "NotFound"
                      /\ bookings' = bookings /\ calendar' = calendar
                      /\ lastEvent'.calls = <<>>
                 ELSE IF bookings[b].status = STATUS_CANCELLED
                 THEN /\ lastEvent'.result = "AlreadyCancelled"
                      /\ bookings' = bookings /\ calendar' = calendar
                      /\ lastEvent'.calls = <<>>
                 ELSE /\ lastEvent'.result = "Cancelled"
                      /\ bookings' = [bookings EXCEPT ![b].status = STATUS_CANCELLED]
                      /\ calendar' \subseteq calendar]_vars

\* a row has just been cancelled although the delete of its calendar event failed: the
\* event is still in the calendar
C36_Witness ==
    /\ lastEvent.op = "handle_cancel_booking"
    /\ lastEvent.result = "Cancelled"
    /\ lastEvent.calls = <<"delete">>
    /\ lastEvent.booking \in DOMAIN bookings
    /\ bookings[lastEvent.booking].status = STATUS_CANCELLED
    /\ \E ev \in calendar : ev.id = bookings[lastEvent.booking].google_event_id

\* the confirmed rows created from ticket t
CommittedFrom(t) ==
    {b \in DOMAIN bookings :
        bookings[b].ticket_channel_id = t /\ bookings[b].google_event_id # None}

\* C37: the one wizard session of a ticket commits at most once: however its
\* slot_selected callbacks interleave, at most one calendar event and one set of
\* bookings come out of it.
C37_SessionCommitsOnce ==
    /\ \A t \in Tickets : Cardinality(CommittedFrom(t)) <= 1
    /\ Cardinality(calendar) <= 1

\* the step is slot_selected completing the reschedule of booking b
RescheduleCompletes(b) ==
    /\ lastEvent'.op = "slot_selected"
    /\ lastEvent'.ticket \in DOMAIN active_tickets
    /\ DictGet(active_tickets[lastEvent'.ticket], "reschedule_booking_id", None) = b

\* C38: a reschedule goes from confirmed to confirmed: completing the reschedule of a
\* booking that is not confirmed at that moment creates no calendar event and leaves
\* the booking's instant and event id as they were.
C38_RescheduleOnlyConfirmed ==
    [][\A b \in DOMAIN bookings :
          RescheduleCompletes(b) /\ bookings[b].status # STATUS_CONFIRMED =>
              /\ calendar' \subseteq calendar
              /\ bookings'[b].scheduled_at = bookings[b].scheduled_at
              /\ bookings'[b].google_event_id = bookings[b].google_event_id]_vars

====
